---------------------------- MODULE Spec2Model ----------------------------
(***************************************************************************)
(* Verification model of fjarsyn: the signaling relay (bifrost), the       *)
(* signaling client and call state machine (networking), and the capture   *)
(* session with its staging pipeline (capture_providers).                  *)
(*                                                                         *)
(* The module holds several specifications over one set of variables; a    *)
(* specification leaves the variables of the other subsystems unchanged.   *)
(*   SpecRelay   - the relay serving connections of arbitrary clients      *)
(*   SpecE2E     - the relay and two call state machines, fault free       *)
(*   SpecCall    - one call state machine with its transport and UI        *)
(*   SpecCapture - a capture session (threaded or WGC provider)            *)
(***************************************************************************)
EXTENDS Integers, Sequences, FiniteSets, TLC

(***************************************************************************)
(* Bounds of the model.                                                    *)
(***************************************************************************)
\* number of connections the relay accepts in a run
NConn == 3
\* number of client messages the relay receives in a run
MaxMsgs == 2
\* capacity of a peer's delivery queue in the model; it stands for
\* PEER_MSG_BUF (100) of handle_socket, scaled down so that a full queue occurs
PeerBufBound == 2
\* number of forwarder tasks whose socket write fails in a run
MaxFwdFail == 1
\* number of connections that end in a run
MaxDisconnect == 1

Conn == 1..NConn

\* uuid::Uuid::new_v4().to_string(): a fresh id per connection
PeerName == <<"p1", "p2", "p3", "p4", "p5", "p6">>
peer_id(c) == PeerName[c]
PeerIds == {peer_id(c) : c \in Conn}
\* an id under which no connection is ever registered
NoSuchPeer == "zz"
ConnOf(id) == CHOOSE c \in Conn : peer_id(c) = id

SignalingType == {"Offer", "Answer", "Candidate", "Identity"}

\* SignalingMessage; n is the model's serial number of the client message the
\* relay received (0 for messages the relay creates itself)
SignalingMessage(to, from, sig_type, data, n) ==
    [to |-> to, from |-> from, sig_type |-> sig_type, data |-> data, n |-> n]

NoMsg == SignalingMessage("", "", "Identity", "", 0)

VARIABLES
    \* ---- relay (bifrost/src/signaling_server.rs)
    peers,      \* SignalingState.peers: the connections whose id is registered
    hpc,        \* position of handle_socket of each connection
    chan,       \* content of each connection's mpsc channel (tx -> rx)
    fwd,        \* the forwarder task of each connection: none, running, exited
    route,      \* the message a handler is routing and the targets still to send
    got,        \* what was written to each connection's socket, in order
    nrecv,      \* number of client messages the relay has received
    rlog,       \* per received client message: arrival connection, registry
                \* lookup, and the sends the relay made for it
    \* ---- signaling client and call state machine of each connection
    cpc,        \* position of the client: connecting, ready
    rd,         \* number of socket messages the client has read
    local_id,   \* WebRTC.local_peer_id
    remote_id,  \* WebRTC.remote_peer_id
    pcstate,    \* signaling state of the RTCPeerConnection
    toServer,   \* outbound signaling queue (signaling_tx -> writer task)
    events,     \* WebRTCEvent values sent to the UI
    hlog,       \* what the last run of handle_signaling_message did
    \* ---- transport and UI of the call state machine (SpecCall)
    conn,       \* RTCPeerConnectionState of the peer connection
    uird,       \* number of WebRTCEvents App::update has handled
    target_id,  \* AppContext.target_id
    eobs,       \* call state seen right after a Disconnected event was handled
    dres,       \* call state seen when disconnect() returned
    ops,        \* number of operations performed on the call state machine
    inbox,      \* the inbound signaling queue of Me (reader task -> signaling
                \* task), and whether each loop of the client still runs
    pli,        \* the keyframe-request loops spawned by on_track, one per
                \* video track, and whether the peer connection is alive
                \* (SpecPli)
    ice,        \* a create_offer in progress, and the ICE candidates the
                \* transport produced: how many were sent, how many discarded
    \* ---- screen capture (SpecCapture)
    prov,           \* which provider: "win" (capture_provider.rs) or "wgc"
    capture_item,   \* self.capture_item
    capturing,      \* self.capturing
    staging,        \* the staging state: textures, frame_count, width, height
    frame_sender,   \* win: the channel the capture thread sends to, 0 = None
    capture_thread, \* win: the frame source run by the capture thread, 0 = None
    session,        \* wgc: the frame source of self.session, 0 = None
    frame_pool,     \* wgc: the frame source of self.frame_pool, 0 = None
    stream_tokens,  \* wgc: self.stream_tokens
    source,         \* platform: state of each frame source ever created
    frames,         \* the frame channel of each stream ever created
    rx_open,        \* whether the stream (receiver) of each channel is alive
    nstreams,       \* number of channels created so far
    nraw,           \* number of raw frames the platform has delivered
    panicked,       \* a frame callback has panicked
    dropped,        \* the provider has been dropped
    stopped,        \* stop_capture() or drop has returned, nothing started since
    cb,             \* what the last run of the frame callback did (prev,
                    \* last: the raw frame last copied before / after it)
    reset_at,       \* number of raw frames delivered before the staging
                    \* textures were last discarded
    lastcall,       \* the start_capture, stop_capture or create_stream call
                    \* the last step made, if any: what it found, what it
                    \* returned, whether it changed anything
    cycle,          \* 0; 1 once a stop_capture ended a capture; 2 once a
                    \* start_capture succeeded after that
    \* ---- frame buffer arena (SpecArena)
    ar,         \* the arena's BytesMut: allocation, offset, len, cap, kind
    lease,      \* every BufferRef handed out: its bytes and what became of it
    nget,       \* number of get calls so far
    nalloc,     \* number of allocations made so far (ids of allocations)
    nrealloc,   \* times the arena's backing region was reallocated
    nrecord,    \* get calls whose size exceeded the initial capacity and
                \* every earlier size
    maxreq,     \* the largest of the initial capacity and the sizes requested
    serial,     \* every lease was dropped, unfrozen, before the next get
    fobs,       \* the arena before and after the last drop of a frozen value
    owner,      \* who holds each lease the capture callback took (SpecLease)
    \* ---- buffer pool (SpecPool)
    buffers,    \* the free-list: capacities of the pooled Vecs, oldest first
    pooled,     \* every PooledBuffer handed out: its capacity and state
    npool,      \* number of get_or_create calls so far
    pobs        \* the last pool operation: free-list before and after

relayVars == <<peers, hpc, chan, fwd, route, got, nrecv, rlog>>
clientVars == <<cpc, rd, local_id, remote_id, pcstate, toServer, events, hlog>>
callVars == <<conn, uird, target_id, eobs, dres, ops>>
provVars == <<prov, capture_item, capturing, frame_sender, capture_thread,
              session, frame_pool, stream_tokens, dropped>>
capVars == <<provVars, staging, source, frames, rx_open, nstreams, nraw,
             panicked, stopped, cb, reset_at, lastcall, cycle>>
arenaVars == <<ar, lease, nget, nalloc, nrealloc, nrecord, maxreq, serial, fobs>>
poolVars == <<buffers, pooled, npool, pobs>>
ownVars == <<owner>>
iceVars == <<ice>>
qVars == <<inbox>>
pliVars == <<pli>>
vars == <<relayVars, clientVars, callVars, capVars, arenaVars, poolVars, ownVars,
          iceVars, qVars, pliVars>>
\* what a specification of one part leaves alone
notRelay == <<clientVars, callVars, capVars, arenaVars, poolVars, ownVars,
              iceVars, qVars, pliVars>>
notNet == <<callVars, capVars, arenaVars, poolVars, ownVars,
            iceVars, qVars, pliVars>>
notCall == <<relayVars, cpc, rd, capVars, arenaVars, poolVars, ownVars,
             iceVars, qVars, pliVars>>
notCapture == <<relayVars, clientVars, callVars, arenaVars, poolVars, ownVars,
                iceVars, qVars, pliVars>>
notArena == <<relayVars, clientVars, callVars, capVars, poolVars, ownVars,
              iceVars, qVars, pliVars>>
notPool == <<relayVars, clientVars, callVars, capVars, arenaVars, ownVars,
             iceVars, qVars, pliVars>>
notLease == <<relayVars, clientVars, callVars, poolVars, iceVars, qVars, pliVars>>

(***************************************************************************)
(* Signaling relay: SignalingServer::handle_socket                         *)
(***************************************************************************)
None == "None"

\* identity_msg of handle_socket
IdentityMsg(c) == SignalingMessage(peer_id(c), "server", "Identity", peer_id(c), 0)

\* mutant: the client-supplied from is kept
StampFromKeep(m, c) == m

\* sig_msg.from = peer_id.clone(): the wire-level from is overwritten
StampFrom(m, c) == [m EXCEPT !.from = peer_id(c)]

\* mutant: the broadcast branch does not skip the sender
RouteTargetsAll(m, c, snapshot) ==
    IF m.to = ""
    THEN snapshot
    ELSE {t \in snapshot : peer_id(t) = m.to}

\* mutant: a message for an absent peer is broadcast instead
RouteTargetsFallback(m, c, snapshot) ==
    IF m.to = "" \/ \A t \in snapshot : peer_id(t) # m.to
    THEN {t \in snapshot : t # c}
    ELSE {t \in snapshot : peer_id(t) = m.to}

\* the ids the routing branch sends to, given the cloned registry
RouteTargets(m, c, snapshot) ==
    IF m.to = ""
    THEN {t \in snapshot : t # c}
    ELSE {t \in snapshot : peer_id(t) = m.to}

\* the orders in which `for (id, tx) in peers` may visit a set of targets
RECURSIVE Orders(_)
Orders(S) ==
    IF S = {} THEN {<<>>}
    ELSE UNION {{<<t>> \o o : o \in Orders(S \ {t})} : t \in S}

\* tx.send(msg).await on the channel of connection t: the message is queued
\* when the receiver is alive; on a closed channel send returns Err
ChanClosed(t) == fwd[t] = "exited"
ChanFull(t) == Len(chan[t]) >= PeerBufBound

RelayInit ==
    /\ peers = {}
    /\ hpc = [c \in Conn |-> "new"]
    /\ chan = [c \in Conn |-> <<>>]
    /\ fwd = [c \in Conn |-> "none"]
    /\ route = [c \in Conn |-> [msg |-> NoMsg, targets |-> <<>>]]
    /\ got = [c \in Conn |-> <<>>]
    /\ nrecv = 0
    /\ rlog = <<>>

\* lines 50-66: a socket is upgraded, the id is drawn and registered
\* (connections are numbered in their order of arrival)
Connect(c) ==
    /\ hpc[c] = "new"
    /\ \A b \in Conn : b < c => hpc[b] # "new"
    /\ peers' = peers \cup {c}
    /\ hpc' = [hpc EXCEPT ![c] = "registered"]
    /\ UNCHANGED <<chan, fwd, route, got, nrecv, rlog>>

\* lines 68-91: the Identity message is sent into the connection's own channel
\* and the forwarder task is spawned
SendIdentity(c) ==
    /\ hpc[c] = "registered"
    /\ ~ChanFull(c)
    /\ chan' = [chan EXCEPT ![c] = Append(@, IdentityMsg(c))]
    /\ fwd' = [fwd EXCEPT ![c] = "running"]
    /\ hpc' = [hpc EXCEPT ![c] = "loop"]
    /\ UNCHANGED <<peers, route, got, nrecv, rlog>>

\* mutant: the forwarder writes the newest queued message first
ForwardNewest(c) ==
    /\ fwd[c] = "running"
    /\ chan[c] # <<>>
    /\ got' = [got EXCEPT ![c] = Append(@, chan[c][Len(chan[c])])]
    /\ chan' = [chan EXCEPT ![c] = SubSeq(@, 1, Len(@) - 1)]
    /\ UNCHANGED <<peers, hpc, fwd, route, nrecv, rlog>>

\* lines 80-91: the forwarder takes the next message and writes it to the socket
Forward(c) ==
    /\ fwd[c] = "running"
    /\ chan[c] # <<>>
    /\ got' = [got EXCEPT ![c] = Append(@, Head(chan[c]))]
    /\ chan' = [chan EXCEPT ![c] = Tail(@)]
    /\ UNCHANGED <<peers, hpc, fwd, route, nrecv, rlog>>

\* lines 84-86: the socket write fails, the forwarder breaks and drops rx
ForwardFail(c) ==
    /\ fwd[c] = "running"
    /\ Cardinality({b \in Conn : fwd[b] = "exited"}) < MaxFwdFail
    /\ chan[c] # <<>>
    /\ fwd' = [fwd EXCEPT ![c] = "exited"]
    /\ chan' = [chan EXCEPT ![c] = <<>>]
    /\ UNCHANGED <<peers, hpc, route, got, nrecv, rlog>>

\* lines 94-122: a text frame that parses arrives on connection c; from is
\* overwritten, the registry is cloned under the read lock and the targets of
\* the send loop are fixed
RelayRecv(c, m) ==
    /\ hpc[c] = "loop"
    /\ LET sig_msg == StampFrom([m EXCEPT !.n = nrecv + 1], c)
           tg == RouteTargets(sig_msg, c, peers)
       IN /\ \E o \in Orders(tg) :
                 /\ route' = [route EXCEPT ![c] =
                                IF o = <<>> THEN [msg |-> NoMsg, targets |-> o]
                                ELSE [msg |-> sig_msg, targets |-> o]]
                 /\ hpc' = [hpc EXCEPT ![c] = IF o = <<>> THEN "loop" ELSE "routing"]
          /\ rlog' = Append(rlog, [src |-> c, to |-> m.to, sig_type |-> m.sig_type,
                                   snap |-> peers, acc |-> [t \in Conn |-> 0],
                                   rej |-> {}])
    /\ nrecv' = nrecv + 1
    /\ UNCHANGED <<peers, chan, fwd, got>>

\* lines 110-118: one tx.send(..).await of the send loop completes
RouteSend(c) ==
    /\ hpc[c] = "routing"
    /\ LET t == Head(route[c].targets)
           rest == Tail(route[c].targets)
       IN /\ ChanClosed(t) \/ ~ChanFull(t)
          /\ chan' = [chan EXCEPT ![t] =
                         IF ChanClosed(t) THEN @ ELSE Append(@, route[c].msg)]
          /\ route' = [route EXCEPT ![c] =
                          IF rest = <<>> THEN [msg |-> NoMsg, targets |-> rest]
                          ELSE [@ EXCEPT !.targets = rest]]
          /\ hpc' = [hpc EXCEPT ![c] = IF rest = <<>> THEN "loop" ELSE "routing"]
          /\ rlog' = [rlog EXCEPT ![route[c].msg.n] =
                         IF ChanClosed(t)
                         THEN [@ EXCEPT !.rej = @ \cup {t}]
                         ELSE [@ EXCEPT !.acc[t] = @ + 1]]
    /\ UNCHANGED <<peers, fwd, got, nrecv>>

\* mutant: the handler ends without removing the id
DisconnectKeep(c) ==
    /\ hpc[c] = "loop"
    /\ Cardinality({b \in Conn : hpc[b] = "closed"}) < MaxDisconnect
    /\ hpc' = [hpc EXCEPT ![c] = "closed"]
    /\ UNCHANGED <<peers, chan, fwd, route, got, nrecv, rlog>>

\* lines 94, 128-133: the socket's stream ends; the id is removed
Disconnect(c) ==
    /\ hpc[c] = "loop"
    /\ Cardinality({b \in Conn : hpc[b] = "closed"}) < MaxDisconnect
    /\ peers' = peers \ {c}
    /\ hpc' = [hpc EXCEPT ![c] = "closed"]
    /\ UNCHANGED <<chan, fwd, route, got, nrecv, rlog>>


(***************************************************************************)
(* Signaling client and call state machine: networking/signaling.rs and    *)
(* networking/webrtc/webrtc.rs.  The RTCPeerConnection is an external      *)
(* library: each of its fallible calls either succeeds or returns Err, as  *)
(* the environment decides, and returns Err whenever the connection's      *)
(* signaling state forbids the call (closed, or an offer while an own      *)
(* offer is pending).  pcstate is the signaling state: new (stable, no     *)
(* description set), have-local-offer, have-remote-offer, stable, closed.  *)
(***************************************************************************)
\* session descriptions and candidates that parse, and one that does not
ValidData == {"sdp-A", "sdp-B", "cand"}
BadData == "garbage"

IncomingCall(x) == [ev |-> "IncomingCall", id |-> x]
Connected == [ev |-> "Connected", id |-> ""]
Disconnected == [ev |-> "Disconnected", id |-> ""]

\* lines 328-353: the first step of the Offer branch that fails for data d in
\* signaling state st, when the environment lets env fail
OfferFailAt(st, d, env) ==
    IF d \notin ValidData THEN "sdp"
    ELSE IF st \in {"closed", "have-local-offer"} THEN "set_remote"
    ELSE IF env \in {"set_remote", "create_answer", "set_local", "send"} THEN env
    ELSE "none"

\* lines 360-364: the same for the Answer branch
AnswerFailAt(st, d, env) ==
    IF d \notin ValidData THEN "sdp"
    ELSE IF st # "have-local-offer" THEN "set_remote"
    ELSE IF env = "set_remote" THEN env
    ELSE "none"

\* lines 367-372: the same for the Candidate branch
CandidateFailAt(st, d, env) ==
    IF d \notin ValidData THEN "parse"
    ELSE IF st = "closed" THEN "add_ice"
    ELSE IF env = "add_ice" THEN env
    ELSE "none"

\* mutant: the Answer is addressed to the Offer's addressee, not its sender
AnswerMsgToSelf(m) == SignalingMessage(m.to, "", "Answer", "sdp-B", 0)

\* line 346-351: response_msg of the auto-answer
AnswerMsg(m) == SignalingMessage(m.from, "", "Answer", "sdp-B", 0)

\* the call state of one peer, and handle_signaling_message as a function of
\* it: [local_id, remote_id, pcstate, toServer, events, fail]
CallState(c) ==
    [local_id |-> local_id[c], remote_id |-> remote_id[c], pcstate |-> pcstate[c],
     toServer |-> toServer[c], events |-> events[c], fail |-> "none"]

\* lines 314-317
HandleIdentity(s, m) == [s EXCEPT !.local_id = m.data]

\* mutant: the Offer is accepted but no Answer is ever queued
HandleOfferSilent(s, m, env) ==
    [s EXCEPT !.remote_id = m.from,
              !.events = Append(@, IncomingCall(m.from)),
              !.pcstate = "stable"]

\* lines 318-354
HandleOffer(s, m, env) ==
    LET f == OfferFailAt(s.pcstate, m.data, env)
    IN [s EXCEPT
          !.remote_id = m.from,
          !.events = Append(@, IncomingCall(m.from)),
          !.pcstate = IF f \in {"sdp", "set_remote"} THEN @
                      ELSE IF f \in {"create_answer", "set_local"}
                           THEN "have-remote-offer"
                      ELSE "stable",
          !.toServer = IF f = "none" THEN Append(@, AnswerMsg(m)) ELSE @,
          !.fail = f]

\* lines 355-365
HandleAnswer(s, m, env) ==
    LET f == AnswerFailAt(s.pcstate, m.data, env)
    IN [s EXCEPT
          !.remote_id = m.from,
          !.pcstate = IF f = "none" THEN "stable" ELSE @,
          !.fail = f]

\* lines 366-373
HandleCandidate(s, m, env) ==
    [s EXCEPT !.fail = CandidateFailAt(s.pcstate, m.data, env)]

\* lines 305-376
handle_signaling_message(s, m, env) ==
    CASE m.sig_type = "Identity" -> HandleIdentity(s, m)
      [] m.sig_type = "Offer" -> HandleOffer(s, m, env)
      [] m.sig_type = "Answer" -> HandleAnswer(s, m, env)
      [] m.sig_type = "Candidate" -> HandleCandidate(s, m, env)

\* what one run of the handler did, as seen from outside
NoH == [n |-> -1, msg |-> NoMsg, idle |-> FALSE, fail |-> "none",
        rid |-> None, answers |-> <<>>, calls |-> <<>>]
Suffix(new, old) == SubSeq(new, Len(old) + 1, Len(new))
Observe(old, new, m, idle) ==
    [n |-> m.n, msg |-> m, idle |-> idle, fail |-> new.fail,
     rid |-> new.remote_id,
     answers |-> Suffix(new.toServer, old.toServer),
     calls |-> Suffix(new.events, old.events)]

\* Idle: no remote peer and no negotiation in progress
Idle(c) == remote_id[c] = None /\ pcstate[c] \in {"new", "closed"}

\* signaling::connect lines 45-47 and WebRTC::init line 62: both queues
\* empty, the writer and the reader task running; sock counts the frames
\* the socket delivered, wrote the messages written to it
\* remote video tracks in a run
MaxTracks == 2
\* interval ticks of one keyframe-request loop in a run
MaxTicks == 3
\* a keyframe-request loop: st is none / sleeping / stopped; ticks: the
\* interval ticks it woke up for; sent: its write_rtcp calls; result: the
\* result of the last one; late: calls made after a failed one; why: what
\* ended it
NoLoop == [st |-> "none", ticks |-> 0, sent |-> 0, result |-> "ok", late |-> 0,
           why |-> "none"]
\* bad: the malformed text frames read; skipped: the frames read that were
\* not text; why: what ended the reader loop
NoInbox == [q |-> <<>>, writer |-> "running", reader |-> "running",
            sock |-> 0, wrote |-> 0, bad |-> 0, skipped |-> 0, why |-> "none"]

\* no create_offer in progress, no candidate produced yet
\* no video track has arrived; the WebRTC value holds the peer connection
NoPli == [alive |-> TRUE, loop |-> [k \in 1..MaxTracks |-> NoLoop]]
NoIce == [pc |-> "idle", target |-> None, sent |-> 0, discarded |-> 0]

\* WebRTC::init lines 56-107 and App::new: a fresh call state machine
CallInit ==
    /\ conn = "new"
    /\ uird = 0
    /\ target_id = None
    /\ eobs = [seen |-> FALSE, rid |-> None, idle |-> TRUE]
    /\ dres = [ret |-> "none", closed |-> FALSE, rid |-> None]
    /\ ops = 0
    /\ ice = NoIce
    /\ inbox = NoInbox
    /\ pli = NoPli

ClientInit ==
    /\ cpc = [c \in Conn |-> "connecting"]
    /\ rd = [c \in Conn |-> 0]
    /\ local_id = [c \in Conn |-> None]
    /\ CallInit
    /\ remote_id = [c \in Conn |-> None]
    /\ pcstate = [c \in Conn |-> "new"]
    /\ toServer = [c \in Conn |-> <<>>]
    /\ events = [c \in Conn |-> <<>>]
    /\ hlog = [c \in Conn |-> NoH]

\* the signaling task of WebRTC::init (lines 110-126) handles message m
HandleMessage(c, m, env) ==
    LET old == CallState(c)
        new == handle_signaling_message(old, m, env)
    IN /\ local_id' = [local_id EXCEPT ![c] = new.local_id]
       /\ remote_id' = [remote_id EXCEPT ![c] = new.remote_id]
       /\ pcstate' = [pcstate EXCEPT ![c] = new.pcstate]
       /\ toServer' = [toServer EXCEPT ![c] = new.toServer]
       /\ events' = [events EXCEPT ![c] = new.events]
       /\ hlog' = [hlog EXCEPT ![c] = Observe(old, new, m, Idle(c))]


\* signaling::connect lines 29-40 and WebRTC::init line 101: the first message
\* read from the socket gives the id, whatever its kind
ClientConnect(c) ==
    /\ cpc[c] = "connecting"
    /\ rd[c] < Len(got[c])
    /\ local_id' = [local_id EXCEPT ![c] = got[c][rd[c] + 1].data]
    /\ rd' = [rd EXCEPT ![c] = @ + 1]
    /\ cpc' = [cpc EXCEPT ![c] = "ready"]
    /\ UNCHANGED <<remote_id, pcstate, toServer, events, hlog>>

\* signaling.rs lines 76-108 and webrtc.rs lines 110-126: the reader task
\* forwards the next socket message and the signaling task handles it
ClientHandle(c, env) ==
    /\ cpc[c] = "ready"
    /\ rd[c] < Len(got[c])
    /\ HandleMessage(c, got[c][rd[c] + 1], env)
    /\ rd' = [rd EXCEPT ![c] = @ + 1]
    /\ UNCHANGED cpc

\* lines 270-296: the first step of create_offer that fails
CreateOfferFailAt(st, env) ==
    IF st = "closed" THEN "create_offer"
    ELSE IF st = "have-remote-offer" /\ env # "create_offer" THEN "set_local"
    ELSE IF env \in {"create_offer", "set_local", "send"} THEN env
    ELSE "none"

\* lines 286-291
OfferMsg(target) == SignalingMessage(target, "", "Offer", "sdp-A", 0)

\* WebRTC::create_offer, lines 270-296
create_offer(s, target, env) ==
    LET f == CreateOfferFailAt(s.pcstate, env)
    IN [s EXCEPT
          !.pcstate = IF f \in {"create_offer", "set_local"} THEN @
                      ELSE "have-local-offer",
          !.remote_id = IF f \in {"create_offer", "set_local"} THEN @ ELSE target,
          !.toServer = IF f = "none" THEN Append(@, OfferMsg(target)) ELSE @,
          !.fail = f]

\* HomeMessage::StartCall: the UI calls create_offer(target_id)
CreateOffer(c, target, env) ==
    /\ cpc[c] = "ready"
    /\ LET new == create_offer(CallState(c), target, env)
       IN /\ remote_id' = [remote_id EXCEPT ![c] = new.remote_id]
          /\ pcstate' = [pcstate EXCEPT ![c] = new.pcstate]
          /\ toServer' = [toServer EXCEPT ![c] = new.toServer]
    /\ UNCHANGED <<cpc, rd, local_id, events, hlog>>

\* signaling.rs lines 52-74 and signaling_server.rs line 94: the writer task
\* writes the next outbound message to the socket and the relay receives it
ClientWrite(c) ==
    /\ toServer[c] # <<>>
    /\ RelayRecv(c, Head(toServer[c]))
    /\ toServer' = [toServer EXCEPT ![c] = Tail(@)]
    /\ UNCHANGED <<cpc, rd, local_id, remote_id, pcstate, events, hlog>>

(***************************************************************************)
(* Screen capture: capture_providers/windows.  Two providers implement the *)
(* same trait: WindowsCaptureProvider (capture_provider.rs, "win"), which  *)
(* runs a capture thread per stream, and WgcCaptureProvider                *)
(* (wgc_capture_provider.rs, "wgc"), whose handlers run on the platform's  *)
(* thread pool.  The platform (WinRT capture, Direct3D) is external: each  *)
(* of its fallible calls succeeds or fails as the environment decides.     *)
(* A frame source is a frame pool with its session and handler; sources    *)
(* and channels are numbered in their order of creation.  Releasing the    *)
(* last reference to a session and its pool ends that source.              *)
(***************************************************************************)
MaxStreams == 1
MaxFrames == 3
PIPELINE_DEPTH == 2
\* the streams a provider creates over its start/stop cycles (SpecCycle)
MaxCycleStreams == 2

Streams == 1..MaxCycleStreams
\* sizes of the raw frames the platform delivers: <<width, height>>
RawSizes == {<<1, 1>>, <<2, 1>>}
RawFrame(id, size) == [id |-> id, w |-> size[1], h |-> size[2]]

\* utils/frame.rs: an output Frame with the pixels read back (data names the
\* raw frame they came from, 0 = a staging texture nothing was copied to)
Frame(data, raw) == [data |-> data, w |-> raw.w, h |-> raw.h]
NoFrame == [data |-> -1, w |-> 0, h |-> 0]

\* struct Staging / StagingState, Default
StagingDefault == [textures |-> <<>>, frame_count |-> 0, width |-> 0, height |-> 0]

\* what the environment may fail in one callback run
FrameFail == {"none", "next", "surface", "texture0", "texture1", "map", "time"}

\* u64::wrapping_sub (the modulus stands for 2^64: any power of two leaves
\* the same remainder modulo PIPELINE_DEPTH)
WrappingSub(a, b) == (a - b) % (2 ^ 30)

\* wgc lines 204-247, win lines 320-352: (re)create the staging textures when
\* there are none or the size changed; CreateTexture2D may fail at either one
EnsureStaging(s, raw, f) ==
    IF s.textures = <<>> \/ s.width # raw.w \/ s.height # raw.h
    THEN LET created == CASE f = "texture0" -> 0
                          [] f = "texture1" -> 1
                          [] OTHER -> PIPELINE_DEPTH
         IN [s |-> [textures |-> [i \in 1..created |-> 0], frame_count |-> 0,
                    width |-> raw.w, height |-> raw.h],
             ok |-> created = PIPELINE_DEPTH, reset |-> TRUE]
    ELSE [s |-> s, ok |-> TRUE, reset |-> FALSE]

\* the result of one run of process_frame: the staging state it leaves, the
\* frame_count it worked with, whether it reset the staging textures, copied
\* the raw frame, read a texture back, the Frame it built, and how it ended
FrameResult(s, fc0, reset, copied, read, out, ret) ==
    [s |-> s, fc0 |-> fc0, reset |-> reset, copied |-> copied, read |-> read, out |-> out,
     ret |-> ret]

\* the index of the write and of the read texture (1-based)
WriteIdx(s) == (s.frame_count % PIPELINE_DEPTH) + 1
ReadIdx(s) == (WrappingSub(s.frame_count, 1) % PIPELINE_DEPTH) + 1
CopyTexture(s, raw) == [s EXCEPT !.textures[WriteIdx(s)] = raw.id]

\* WgcCaptureProvider::process_frame, lines 85-188 (up to the try_send)
WgcProcessFrame(s0, raw, f) ==
    IF f = "surface" THEN FrameResult(s0, s0.frame_count, FALSE, FALSE, FALSE, NoFrame, "err")
    ELSE LET e == EnsureStaging(s0, raw, f)
             s == e.s
         IN IF ~e.ok THEN FrameResult(s, 0, TRUE, FALSE, FALSE, NoFrame, "err")
            ELSE IF WriteIdx(s) > Len(s.textures)
                 THEN FrameResult(s, s.frame_count, e.reset, FALSE, FALSE, NoFrame, "panic")
            ELSE LET c == CopyTexture(s, raw)
                 IN IF ReadIdx(s) > Len(s.textures)
                    THEN FrameResult(c, s.frame_count, e.reset, TRUE, FALSE, NoFrame, "panic")
                    ELSE IF f = "map"
                    THEN FrameResult(c, s.frame_count, e.reset, TRUE, TRUE, NoFrame, "err")
                    ELSE FrameResult([c EXCEPT !.frame_count = @ + 1], s.frame_count,
                                     e.reset,
                                     TRUE, TRUE,
                                     Frame(c.textures[ReadIdx(s)], raw), "ok")

\* WindowsCaptureProvider::process_frame, lines 238-409 (up to the try_send)
WinProcessFrame(s0, raw, f) ==
    IF f = "surface" THEN FrameResult(s0, s0.frame_count, FALSE, FALSE, FALSE, NoFrame, "ok")
    ELSE LET e == EnsureStaging(s0, raw, f)
             s == e.s
         IN IF ~e.ok THEN FrameResult(s, 0, TRUE, FALSE, FALSE, NoFrame, "ok")
            ELSE IF WriteIdx(s) > Len(s.textures)
                 THEN FrameResult(s, s.frame_count, e.reset, FALSE, FALSE, NoFrame, "panic")
            ELSE LET c == CopyTexture(s, raw)
                     rd1 == s.frame_count > 0
                     n == [c EXCEPT !.frame_count = @ + 1]
                 IN IF rd1 /\ ReadIdx(s) > Len(s.textures)
                    THEN FrameResult(c, s.frame_count, e.reset, TRUE, FALSE, NoFrame, "panic")
                    ELSE IF ~rd1 \/ f \in {"map", "time"}
                    THEN FrameResult(n, s.frame_count, e.reset, TRUE, rd1, NoFrame, "ok")
                    ELSE FrameResult(n, s.frame_count, e.reset, TRUE, TRUE,
                                     Frame(c.textures[ReadIdx(s)], raw), "ok")

process_frame(p, s, raw, f) ==
    IF p = "wgc" THEN WgcProcessFrame(s, raw, f) ELSE WinProcessFrame(s, raw, f)

\* mutant: a send that makes room by evicting the oldest queued frame
TrySendEvict(q, open, fr) ==
    IF ~open THEN [q |-> q, res |-> "closed"]
    ELSE IF Len(q) >= PIPELINE_DEPTH THEN [q |-> Append(Tail(q), fr), res |-> "full"]
    ELSE [q |-> Append(q, fr), res |-> "ok"]

\* tx.try_send(frame) on a channel of capacity PIPELINE_DEPTH (wgc lines
\* 190-199 and 258, win lines 411-419 and 457)
TrySend(q, open, fr) ==
    IF ~open THEN [q |-> q, res |-> "closed"]
    ELSE IF Len(q) >= PIPELINE_DEPTH THEN [q |-> q, res |-> "full"]
    ELSE [q |-> Append(q, fr), res |-> "ok"]

NoCb == [src |-> 0, fc0 |-> 0, reset |-> FALSE, copied |-> FALSE, read |-> FALSE,
         out |-> NoFrame, fc1 |-> 0, send |-> "none", before |-> <<>>,
         after |-> <<>>, dimchg |-> FALSE, rst |-> 0, prev |-> 0, last |-> 0]

\* no start_capture or stop_capture call was made yet
\* fail: the platform failure the call met; peak: the most frame sources
\* that were running at one moment of the call
NoRet == [op |-> "none", res |-> "Ok", wascap |-> FALSE, hadsrc |-> FALSE,
          same |-> TRUE, fail |-> "none", peak |-> 0]

\* the number of frame sources that run
Running(src) == Cardinality({k \in Streams : src[k] = "running"})

\* the fields of the provider a caller of the CaptureProvider trait can tell
\* a change of
ProviderState ==
    <<capture_item, capturing, frame_sender, capture_thread, session,
      frame_pool, stream_tokens, staging, source>>

\* new(): wgc lines 71-83, win lines 81-90
CaptureInit(p, item) ==
    /\ prov = p
    /\ capture_item = item
    /\ capturing = FALSE
    /\ staging = StagingDefault
    /\ frame_sender = 0
    /\ capture_thread = 0
    /\ session = 0
    /\ frame_pool = 0
    /\ stream_tokens = <<>>
    /\ source = [k \in Streams |-> "none"]
    /\ frames = [k \in Streams |-> <<>>]
    /\ rx_open = [k \in Streams |-> FALSE]
    /\ nstreams = 0
    /\ nraw = 0
    /\ panicked = FALSE
    /\ dropped = FALSE
    /\ stopped = FALSE
    /\ cb = NoCb
    /\ reset_at = 0
    /\ lastcall = NoRet
    /\ cycle = 0

\* the frame source k ends (Close, released, or its thread quit)
EndSource(src, k) == IF k = 0 THEN src ELSE [src EXCEPT ![k] = "closed"]

(***************************************************************************)
(* The frame buffer arena: src/utils/buffer_arena.rs over bytes::BytesMut. *)
(* Sizes are counted in units of a quarter of the initial capacity.        *)
(***************************************************************************)
ArenaCap == 2
MaxSize == 3
MaxGets == 3

Max(x, y) == IF x >= y THEN x ELSE y

\* BytesMut keeps the capacity it was created with, rounded down, as the
\* least capacity of a buffer it allocates afresh
original_capacity == ArenaCap \div 2

\* a BytesMut: `len` bytes at offset `lo` of allocation `a`, `cap` bytes
\* usable from `lo`, the allocation being `vc` bytes; kind "vec" while the
\* allocation was never shared, "arc" once it was split
BytesMut(a, lo, len, cap, vc, kind) ==
    [a |-> a, lo |-> lo, len |-> len, cap |-> cap, vc |-> vc, kind |-> kind]

\* BytesMut::reserve(additional) on b; unique: no other handle shares b's
\* allocation; fresh: the id a new allocation gets.  Returns the new b and
\* whether the backing region was reallocated.
reserve(b, additional, unique, fresh) ==
    LET need == b.len + additional IN
    IF additional <= b.cap - b.len
    THEN [b |-> b, realloc |-> FALSE]
    ELSE IF b.kind = "vec"
    THEN LET c == Max(2 * b.vc, b.lo + need) IN
         [b |-> BytesMut(fresh, b.lo, b.len, c - b.lo, c, "vec"),
          realloc |-> TRUE]
    ELSE IF unique
    THEN IF b.vc >= need + b.lo
         THEN [b |-> [b EXCEPT !.cap = need], realloc |-> FALSE]
         ELSE IF b.vc >= need /\ b.lo >= b.len
         THEN [b |-> [b EXCEPT !.lo = 0, !.cap = b.vc], realloc |-> FALSE]
         ELSE LET c == Max(2 * b.vc, b.lo + need) IN
              [b |-> BytesMut(fresh, b.lo, b.len, c - b.lo, c, "arc"),
               realloc |-> TRUE]
    ELSE LET c == Max(need, original_capacity) IN
         [b |-> BytesMut(fresh, 0, b.len, c, c, "vec"), realloc |-> TRUE]

\* a split that leaves the front bytes in b as well
split_to_keep(b, at) ==
    [chunk |-> BytesMut(b.a, b.lo, at, at, b.vc, "arc"),
     rest |-> [b EXCEPT !.kind = "arc"]]

\* BytesMut::split_to(at): the front `at` bytes leave b as a handle of their
\* own; both share the allocation from now on
split_to(b, at) ==
    [chunk |-> BytesMut(b.a, b.lo, at, at, b.vc, "arc"),
     rest |-> BytesMut(b.a, b.lo + at, b.len - at, b.cap - at, b.vc, "arc")]

\* BytesMut::try_unsplit: other joins b in place only when it starts where
\* b ends, in the same shared allocation
Contiguous(b, other) ==
    /\ b.kind = "arc" /\ other.kind = "arc"
    /\ b.a = other.a
    /\ b.lo + b.len = other.lo

\* BytesMut::unsplit(other): an empty b becomes other; a contiguous other
\* is joined in place; otherwise other's bytes are copied to b's end
\* (extend_from_slice), which reserves room for them first
unsplit(b, other, unique, fresh) ==
    IF b.len = 0
    THEN [b |-> other, realloc |-> FALSE]
    ELSE IF other.cap = 0
    THEN [b |-> b, realloc |-> FALSE]
    ELSE IF Contiguous(b, other)
    THEN [b |-> [b EXCEPT !.len = b.len + other.len, !.cap = b.cap + other.cap],
          realloc |-> FALSE]
    ELSE LET r == reserve(b, other.len, unique, fresh) IN
         [b |-> [r.b EXCEPT !.len = r.b.len + other.len],
          realloc |-> r.realloc]

Leases == 1..MaxGets
\* who holds a lease: nobody yet ("none"), the frame callback of source k
\* ("cb"), a Frame in channel k ("chan"), a Frame the dropped receiver of
\* channel k still has to drop ("closing"), a Frame the consumer received
\* ("consumer"), or nobody any more, the lease having been dropped ("arena")
Own(at, k) == [at |-> at, k |-> k]
\* fz: the number of get calls made when the lease was frozen
NoLease == [st |-> "none", data |-> BytesMut(0, 0, 0, 0, 0, "vec"), fz |-> 0]
\* the handles that keep a lease's bytes alive
Live(i) == lease[i].st \in {"held", "frozen"}
\* no handle but b shares b's allocation
is_unique(b) == \A i \in Leases : Live(i) => lease[i].data.a # b.a

\* BufferArena::init(capacity)
ArenaInit ==
    /\ ar = BytesMut(1, 0, ArenaCap, ArenaCap, ArenaCap, "vec")
    /\ lease = [i \in Leases |-> NoLease]
    /\ nget = 0
    /\ nalloc = 1
    /\ nrealloc = 0
    /\ nrecord = 0
    /\ maxreq = ArenaCap
    /\ serial = TRUE
    /\ fobs = [n |-> 0, before |-> ar, after |-> ar]
    /\ owner = [i \in Leases |-> Own("none", 0)]

\* BufferArena::get(size): grow the arena to size if it is shorter, then
\* split the front size bytes off as the lease
ArenaGet(size) ==
    /\ nget < MaxGets
    /\ LET grown == IF ar.len < size
                    THEN LET r == reserve(ar, size - ar.len, is_unique(ar),
                                          nalloc + 1)
                         IN [b |-> [r.b EXCEPT !.len = size],
                             realloc |-> r.realloc]
                    ELSE [b |-> ar, realloc |-> FALSE]
           s == split_to(grown.b, size)
       IN /\ ar' = s.rest
          /\ lease' = [lease EXCEPT ![nget + 1] = [st |-> "held", data |-> s.chunk, fz |-> 0]]
          /\ nalloc' = IF grown.realloc THEN nalloc + 1 ELSE nalloc
          /\ nrealloc' = IF grown.realloc THEN nrealloc + 1 ELSE nrealloc
    /\ nget' = nget + 1
    /\ nrecord' = IF size > maxreq THEN nrecord + 1 ELSE nrecord
    /\ maxreq' = Max(maxreq, size)
    /\ serial' = (serial /\ \A i \in Leases : lease[i].st \in {"none", "dropped"})
    /\ UNCHANGED fobs

\* Drop for BufferRef whose data was not taken: the bytes are unsplit into
\* the arena, under the arena's write lock
LeaseDrop(i) ==
    /\ lease[i].st = "held"
    /\ LET r == unsplit(ar, lease[i].data, is_unique(ar), nalloc + 1)
       IN /\ ar' = r.b
          /\ nalloc' = IF r.realloc THEN nalloc + 1 ELSE nalloc
          /\ nrealloc' = IF r.realloc THEN nrealloc + 1 ELSE nrealloc
    /\ lease' = [lease EXCEPT ![i].st = "dropped"]
    /\ UNCHANGED <<nget, nrecord, maxreq, serial, fobs>>

\* a freeze that leaves the data in the lease: Drop unsplits the frozen bytes
LeaseFreezeKeep(i) ==
    /\ lease[i].st = "held"
    /\ LET r == unsplit(ar, lease[i].data, is_unique(ar), nalloc + 1)
       IN /\ ar' = r.b
          /\ nalloc' = IF r.realloc THEN nalloc + 1 ELSE nalloc
          /\ nrealloc' = IF r.realloc THEN nrealloc + 1 ELSE nrealloc
    /\ lease' = [lease EXCEPT ![i].st = "frozen", ![i].fz = nget]
    /\ UNCHANGED <<nget, nrecord, maxreq, serial, fobs>>

\* BufferRef::freeze: the bytes leave the lease as an immutable Bytes; the
\* lease is dropped with data_taken set, so Drop returns nothing
LeaseFreeze(i) ==
    /\ lease[i].st = "held"
    /\ lease' = [lease EXCEPT ![i].st = "frozen", ![i].fz = nget]
    /\ UNCHANGED <<ar, nget, nalloc, nrealloc, nrecord, maxreq, serial, fobs>>

\* the frozen Bytes is dropped: its handle on the allocation goes away
FrozenDrop(i) ==
    /\ lease[i].st = "frozen"
    /\ lease' = [lease EXCEPT ![i].st = "freed"]
    /\ UNCHANGED <<ar, nget, nalloc, nrealloc, nrecord, maxreq, serial>>
    /\ fobs' = [n |-> i, before |-> ar, after |-> ar']

(***************************************************************************)
(* The buffer pool: src/utils/buffer_pool.rs over crossbeam's ArrayQueue.  *)
(***************************************************************************)
max_buffers == 2
MaxPoolSize == 2
MaxPoolGets == 4

Pooled == 1..MaxPoolGets
NoPooled == [st |-> "none", cap |-> 0]
NoPoolOp == [op |-> "none", n |-> 0, size |-> 0, cap |-> 0, fresh |-> FALSE,
             before |-> <<>>, after |-> <<>>]

\* a push that always finds room
push_unbounded(q, vec) == Append(q, vec)

\* ArrayQueue::push(vec).ok(): a full queue refuses vec, which is dropped
push(q, vec) == IF Len(q) < max_buffers THEN Append(q, vec) ELSE q

\* a buffer that is handed out as it was popped
keep_capacity(cap, size) == cap

\* lines 25-28: a Vec too small for size is cleared and reserved to size
ensure_capacity(cap, size) ==
    IF cap < size THEN Max(2 * cap, size) ELSE cap

\* BufferPool::init(max_buffers)
PoolInit ==
    /\ buffers = <<>>
    /\ pooled = [i \in Pooled |-> NoPooled]
    /\ npool = 0
    /\ pobs = NoPoolOp

\* BufferPool::get_or_create(size): pop the oldest pooled Vec, or allocate
\* one of capacity size when the free-list is empty; then make it big enough
PoolGetOrCreate(size) ==
    /\ npool < MaxPoolGets
    /\ LET fresh == buffers = <<>>
           vec == IF fresh THEN size ELSE Head(buffers)
           cap == ensure_capacity(vec, size)
           rest == IF fresh THEN buffers ELSE Tail(buffers)
       IN /\ buffers' = rest
          /\ pooled' = [pooled EXCEPT ![npool + 1] = [st |-> "leased", cap |-> cap]]
          /\ pobs' = [op |-> "get", n |-> npool + 1, size |-> size, cap |-> cap,
                      fresh |-> fresh, before |-> buffers, after |-> rest]
    /\ npool' = npool + 1

\* Drop for PooledBuffer: the Vec goes back to the free-list if it has room
PooledDrop(i) ==
    /\ pooled[i].st = "leased"
    /\ buffers' = push(buffers, pooled[i].cap)
    /\ pooled' = [pooled EXCEPT ![i].st = "dropped"]
    /\ pobs' = [op |-> "drop", n |-> i, size |-> 0, cap |-> pooled[i].cap,
                fresh |-> FALSE, before |-> buffers, after |-> buffers']
    /\ UNCHANGED npool

\* PooledBuffer::take(): the Vec is moved out and an empty Vec left in its
\* place; the lease then goes out of scope and Drop pushes what it holds
PooledTake(i) ==
    /\ pooled[i].st = "leased"
    /\ buffers' = push(buffers, 0)
    /\ pooled' = [pooled EXCEPT ![i].st = "taken"]
    /\ pobs' = [op |-> "take", n |-> i, size |-> 0, cap |-> pooled[i].cap,
                fresh |-> FALSE, before |-> buffers, after |-> buffers']
    /\ UNCHANGED npool

(***************************************************************************)
(* SpecRelay: the relay with clients that send arbitrary messages.         *)
(***************************************************************************)
\* what a client may put on the wire: any to, any from, any kind
ClientFrom == {"", "server", "p1"}
WireMsgs ==
    {SignalingMessage(to, from, k, "d", 0) :
        to \in {"", NoSuchPeer} \cup PeerIds, from \in ClientFrom,
        k \in {"Offer"}}

InitRelay == RelayInit /\ ClientInit /\ CaptureInit("wgc", None) /\ ArenaInit /\ PoolInit
NextRelay ==
    \/ \E c \in Conn : Connect(c) /\ UNCHANGED notRelay
    \/ \E c \in Conn : SendIdentity(c) /\ UNCHANGED notRelay
    \/ \E c \in Conn : Forward(c) /\ UNCHANGED notRelay
    \/ \E c \in Conn : ForwardFail(c) /\ UNCHANGED notRelay
    \/ \E c \in Conn : \E m \in WireMsgs :
          nrecv < MaxMsgs /\ RelayRecv(c, m) /\ UNCHANGED notRelay
    \/ \E c \in Conn : RouteSend(c) /\ UNCHANGED notRelay
    \/ \E c \in Conn : Disconnect(c) /\ UNCHANGED notRelay
SpecRelay == InitRelay /\ [][NextRelay]_vars


(***************************************************************************)
(* Claims about the relay                                                  *)
(***************************************************************************)
\* the send loop for received message n has ended
RouteDone(n) == \A c \in Conn : ~(hpc[c] = "routing" /\ route[c].msg.n = n)
\* the peers other than the sender that were registered at the lookup
Others(n) == rlog[n].snap \ {rlog[n].src}
\* number of copies of message n the relay has queued for or written to t
RECURSIVE Count(_, _)
Count(q, n) ==
    IF q = <<>> THEN 0
    ELSE (IF Head(q).n = n THEN 1 ELSE 0) + Count(Tail(q), n)
Copies(n, t) == Count(got[t], n) + Count(chan[t], n)

\* C1 as stated: a broadcast (to = "") from a registered peer A is delivered to
\* every other peer registered at the lookup, each exactly once, and never to A
C1_BroadcastToAllOthers ==
    \A n \in 1..Len(rlog) :
        (rlog[n].to = "" /\ RouteDone(n)) =>
            \A t \in Conn :
                rlog[n].acc[t] = IF t \in Others(n) THEN 1 ELSE 0

\* C1 amended: a broadcast from A is delivered exactly once to every other peer
\* registered at the lookup whose delivery queue is still open when the relay
\* sends into it, to no one else, and never to A; a registered peer whose
\* forwarder has ended (closed queue) gets nothing
C1_BroadcastToOpenOthers ==
    \A n \in 1..Len(rlog) :
        (rlog[n].to = "" /\ RouteDone(n)) =>
            /\ \A t \in Conn :
                  rlog[n].acc[t] =
                      IF t \in Others(n) /\ t \notin rlog[n].rej THEN 1 ELSE 0
            /\ \A t \in rlog[n].rej : ChanClosed(t)
            /\ \A t \in Conn : ~ChanClosed(t) => Copies(n, t) = rlog[n].acc[t]
            /\ Copies(n, rlog[n].src) = 0

\* a broadcast reached two other registered peers, once each
C1_Witness ==
    \E n \in 1..Len(rlog) :
        /\ rlog[n].to = "" /\ RouteDone(n)
        /\ Cardinality(Others(n)) >= 2
        /\ \A t \in Others(n) : Copies(n, t) = 1

\* C2: every message the relay delivers for a client carries from = the id of
\* the connection it arrived on, and what is delivered, and to whom, does not
\* depend on the from the client supplied
C2_FromIsArrivalId ==
    /\ \A c \in Conn :
          /\ \A i \in 1..Len(chan[c]) :
                chan[c][i].n > 0 =>
                    chan[c][i].from = peer_id(rlog[chan[c][i].n].src)
          /\ \A i \in 1..Len(got[c]) :
                got[c][i].n > 0 =>
                    got[c][i].from = peer_id(rlog[got[c][i].n].src)
    /\ \A c \in Conn : \A m \in {w \in WireMsgs : w.from = ""} :
          \A f \in ClientFrom :
              LET m2 == [m EXCEPT !.from = f]
              IN /\ StampFrom(m, c) = StampFrom(m2, c)
                 /\ RouteTargets(StampFrom(m, c), c, peers)
                        = RouteTargets(StampFrom(m2, c), c, peers)

\* a message has been written to another peer's socket that is what the relay
\* makes of a wire message with a forged from
C2_Witness ==
    \E c \in Conn : \E i \in 1..Len(got[c]) :
        /\ got[c][i].n > 0
        /\ rlog[got[c][i].n].src # c
        /\ got[c][i].from = peer_id(rlog[got[c][i].n].src)
        /\ \E m \in WireMsgs :
              /\ m.from \notin {"", got[c][i].from}
              /\ StampFrom(m, rlog[got[c][i].n].src) = [got[c][i] EXCEPT !.n = 0]

\* C3 as stated: the Identity message is the first message written to every
\* connection, so connect() reads the registered id from its first message
C3_IdentityFirst ==
    \A c \in Conn : got[c] # <<>> => got[c][1] = IdentityMsg(c)


(***************************************************************************)
(* SpecE2E: the relay and two clients with no faults.  A, the first        *)
(* connection, calls create_offer for B, the second; every message takes   *)
(* the path writer task -> relay -> forwarder -> reader task -> handler.   *)
(* Every task is scheduled by the tokio runtime as long as it can run.     *)
(***************************************************************************)
MaxOffers == 2
A == 1
B == 2
E2EConn == {A, B}

\* the messages of kind k the handler of connection c has handled
Handled(c, k) ==
    {i \in 1..rd[c] : got[c][i].sig_type = k}
\* the messages of kind k connection c has queued or sent through the relay
Sent(c, k) ==
    Cardinality({i \in 1..Len(toServer[c]) : toServer[c][i].sig_type = k})
    + Cardinality({n \in 1..Len(rlog) : rlog[n].src = c /\ rlog[n].sig_type = k})

InitE2E == RelayInit /\ ClientInit /\ CaptureInit("wgc", None) /\ ArenaInit /\ PoolInit
NextE2E ==
    \/ \E c \in E2EConn : Connect(c) /\ UNCHANGED notRelay
    \/ \E c \in E2EConn : SendIdentity(c) /\ UNCHANGED notRelay
    \/ \E c \in E2EConn : Forward(c) /\ UNCHANGED notRelay
    \/ \E c \in E2EConn : RouteSend(c) /\ UNCHANGED notRelay
    \/ \E c \in E2EConn : ClientConnect(c) /\ UNCHANGED <<relayVars, notNet>>
    \/ \E c \in E2EConn : ClientHandle(c, "none") /\ UNCHANGED <<relayVars, notNet>>
    \/ /\ Sent(A, "Offer") < MaxOffers
       /\ local_id[B] # None
       /\ CreateOffer(A, peer_id(B), "none")
       /\ UNCHANGED <<relayVars, notNet>>
    \/ \E c \in E2EConn : ClientWrite(c) /\ UNCHANGED notNet
SpecE2E == InitE2E /\ [][NextE2E]_vars /\ WF_vars(NextE2E)

\* C4: with the relay and two honest clients A = p1 and B = p2, every Offer B
\* receives is A's (to p2, from p1, data sdp-A) and arrives once; B has sent
\* exactly one Answer, addressed to p1, per Offer it handled; every Answer A
\* receives has from = p2; and every Offer A sends leads to A handling B's
\* Answer.
C4_Safety ==
    /\ \A i \in 1..Len(got[B]) :
          got[B][i].sig_type = "Offer" =>
             /\ got[B][i].to = peer_id(B)
             /\ got[B][i].from = peer_id(A)
             /\ got[B][i].data = "sdp-A"
             /\ Copies(got[B][i].n, B) = 1
    /\ Sent(B, "Answer") = Cardinality(Handled(B, "Offer"))
    /\ \A i \in 1..Len(toServer[B]) : toServer[B][i].to = peer_id(A)
    /\ \A n \in 1..Len(rlog) : rlog[n].src = B => rlog[n].to = peer_id(A)
    /\ \A i \in 1..Len(got[A]) :
          got[A][i].sig_type = "Answer" =>
             /\ got[A][i].from = peer_id(B)
             /\ got[A][i].to = peer_id(A)
             /\ got[A][i].data = "sdp-B"
             /\ Copies(got[A][i].n, A) = 1
C4_EndToEnd ==
    /\ []C4_Safety
    /\ \A k \in 1..(MaxOffers + 1) :
          (Sent(A, "Offer") >= k) ~> (Cardinality(Handled(A, "Answer")) >= k)
C4_Witness ==
    /\ Cardinality(Handled(B, "Offer")) = 1
    /\ Cardinality(Handled(A, "Answer")) = 1
    /\ got[A][rd[A]].sig_type = "Answer"
    /\ got[A][rd[A]].from = peer_id(B)
    /\ remote_id[A] = peer_id(B)
    /\ remote_id[B] = peer_id(A)
    /\ pcstate[A] = "stable"


(***************************************************************************)
(* SpecCall: the call state machine of one peer, Me, driven by arbitrary   *)
(* inbound signaling messages, UI commands and transport events.           *)
(***************************************************************************)
MaxOps == 4
Me == 1
Callers == {"p2", "p3"}

\* what the relay may deliver to Me
CallMsgs ==
    {SignalingMessage(peer_id(Me), x, k, d, 0) :
        x \in Callers, k \in SignalingType, d \in {"sdp-A", BadData}}

\* the fallible calls the environment may fail while the handler runs on a
\* message of kind k, and while create_offer runs
EnvFail(k) ==
    CASE k = "Offer" -> {"none", "set_remote", "create_answer", "set_local", "send"}
      [] k = "Answer" -> {"none", "set_remote"}
      [] k = "Candidate" -> {"none", "add_ice"}
      [] k = "Identity" -> {"none"}
      [] k = "create_offer" -> {"none", "create_offer", "set_local", "send"}

\* webrtc.rs lines 110-126: the signaling task hands message m to the handler
CallRecv(m, env) ==
    /\ ops < MaxOps
    /\ HandleMessage(Me, m, env)
    /\ ops' = ops + 1
    /\ UNCHANGED <<conn, uird, target_id, eobs, dres>>

\* home.rs StartCall: create_offer(target)
CallCreateOffer(target, env) ==
    /\ ops < MaxOps
    /\ CreateOffer(Me, target, env)
    /\ ops' = ops + 1
    /\ UNCHANGED <<conn, uird, target_id, eobs, dres>>

\* webrtc.rs lines 161-178: on_peer_connection_state_change.  The transport
\* connects once negotiation is complete, may lose and regain the link, and
\* reports Closed after close().
CanChangeTo(s) ==
    CASE s = "connected" -> conn \in {"new", "disconnected"} /\ pcstate[Me] = "stable"
      [] s = "disconnected" -> conn = "connected" /\ pcstate[Me] # "closed"
      [] s = "failed" -> conn = "disconnected" /\ pcstate[Me] # "closed"
      [] s = "closed" -> conn # "closed" /\ pcstate[Me] = "closed"

StateEvent(s) ==
    CASE s = "connected" -> <<Connected>>
      [] s \in {"disconnected", "closed"} -> <<Disconnected>>
      [] OTHER -> <<>>

StateChange(s) ==
    /\ ops < MaxOps
    /\ CanChangeTo(s)
    /\ conn' = s
    /\ events' = [events EXCEPT ![Me] = @ \o StateEvent(s)]
    /\ ops' = ops + 1
    /\ UNCHANGED <<local_id, remote_id, pcstate, toServer, hlog,
                   uird, target_id, eobs, dres>>

\* app.rs lines 303-330: App::update handles the next WebRTCEvent
AppUpdate ==
    /\ uird < Len(events[Me])
    /\ LET e == events[Me][uird + 1]
       IN /\ target_id' = IF e.ev = "IncomingCall" THEN e.id ELSE target_id
          /\ eobs' = IF e.ev = "Disconnected"
                     THEN [seen |-> TRUE, rid |-> remote_id[Me], idle |-> Idle(Me)]
                     ELSE eobs
    /\ uird' = uird + 1
    /\ UNCHANGED <<local_id, remote_id, pcstate, toServer, events, hlog,
                   conn, dres, ops>>

\* webrtc.rs lines 298-302: close() returns r; on Err the `?` returns before
\* remote_peer_id is reset.  Whether a failed close() left the connection
\* closed is the library's business.
CloseResults == {"ok", "err_closed", "err_open"}
disconnect(s, r) ==
    [s EXCEPT
        !.pcstate = IF r = "err_open" THEN @ ELSE "closed",
        !.remote_id = IF r = "ok" THEN None ELSE @,
        !.fail = IF r = "ok" THEN "none" ELSE "close"]

\* call.rs lines 171-195: EndCall calls disconnect()
CallDisconnect(r) ==
    /\ ops < MaxOps
    /\ LET new == disconnect(CallState(Me), r)
       IN /\ pcstate' = [pcstate EXCEPT ![Me] = new.pcstate]
          /\ remote_id' = [remote_id EXCEPT ![Me] = new.remote_id]
          /\ dres' = [ret |-> r, closed |-> new.pcstate = "closed",
                      rid |-> new.remote_id]
    /\ ops' = ops + 1
    /\ UNCHANGED <<local_id, toServer, events, hlog, conn, uird, target_id, eobs>>

InitCall ==
    /\ RelayInit
    /\ cpc = [c \in Conn |-> IF c = Me THEN "ready" ELSE "connecting"]
    /\ rd = [c \in Conn |-> 0]
    /\ local_id = [c \in Conn |-> IF c = Me THEN peer_id(Me) ELSE None]
    /\ remote_id = [c \in Conn |-> None]
    /\ pcstate = [c \in Conn |-> "new"]
    /\ toServer = [c \in Conn |-> <<>>]
    /\ events = [c \in Conn |-> <<>>]
    /\ hlog = [c \in Conn |-> NoH]
    /\ CallInit
    /\ CaptureInit("wgc", None) /\ ArenaInit /\ PoolInit
NextCall ==
    \/ \E m \in CallMsgs : \E env \in EnvFail(m.sig_type) :
          CallRecv(m, env) /\ UNCHANGED notCall
    \/ \E t \in Callers : \E env \in EnvFail("create_offer") :
          CallCreateOffer(t, env)
          /\ UNCHANGED <<relayVars, capVars, arenaVars, poolVars, ownVars, iceVars,
                       qVars, pliVars>>
    \/ \E s \in {"connected", "disconnected", "failed", "closed"} :
          StateChange(s) /\ UNCHANGED notCall
    \/ AppUpdate /\ UNCHANGED notCall
    \/ \E r \in CloseResults : CallDisconnect(r) /\ UNCHANGED notCall
SpecCall == InitCall /\ [][NextCall]_vars

\* C5 as stated: when Idle, handling an Offer from X sets remote_id to X,
\* queues exactly one Answer addressed to X and raises exactly one
\* incoming-call notification naming X
C5_IdleOfferAnswersOnce ==
    (hlog[Me].idle /\ hlog[Me].msg.sig_type = "Offer") =>
        /\ hlog[Me].rid = hlog[Me].msg.from
        /\ hlog[Me].calls = <<IncomingCall(hlog[Me].msg.from)>>
        /\ Len(hlog[Me].answers) = 1
        /\ hlog[Me].answers[1].sig_type = "Answer"
        /\ hlog[Me].answers[1].to = hlog[Me].msg.from

\* C5 amended: when Idle, handling an Offer from X sets remote_id to X and
\* raises exactly one incoming-call notification naming X; it queues exactly
\* one Answer addressed to X if the handler returns Ok, and none if it
\* returns Err (the data does not parse or a transport call fails)
C5_IdleOfferAnswersOnceIfOk ==
    (hlog[Me].idle /\ hlog[Me].msg.sig_type = "Offer") =>
        /\ hlog[Me].rid = hlog[Me].msg.from
        /\ hlog[Me].calls = <<IncomingCall(hlog[Me].msg.from)>>
        /\ hlog[Me].fail = "none" =>
              /\ Len(hlog[Me].answers) = 1
              /\ hlog[Me].answers[1].sig_type = "Answer"
              /\ hlog[Me].answers[1].to = hlog[Me].msg.from
        /\ hlog[Me].fail # "none" => hlog[Me].answers = <<>>
C5_Witness ==
    /\ hlog[Me].idle
    /\ hlog[Me].msg.sig_type = "Offer"
    /\ hlog[Me].msg.from = "p2"
    /\ hlog[Me].fail = "none"
    /\ remote_id[Me] = "p2"
    /\ Len(toServer[Me]) = 1
    /\ toServer[Me][1].to = "p2"

\* C6: once a Disconnected event (transport state Disconnected or Closed) has
\* been handled, the call state is Idle and remote_id is None
C6_DisconnectedResets ==
    eobs.seen => (eobs.rid = None /\ eobs.idle)

\* C7: when disconnect() has returned, the transport is closed and remote_id
\* is None
C7_DisconnectClears ==
    dres.ret # "none" => (dres.closed /\ dres.rid = None)


(***************************************************************************)
(* SpecCapture: one capture provider of either kind, driven by arbitrary   *)
(* calls of the CaptureProvider trait, frames arriving from the platform,  *)
(* platform failures, and a consumer that reads or drops its streams.      *)
(***************************************************************************)
\* set_capture_item: wgc lines 369-384, win lines 510-528
SetCaptureItem ==
    /\ ~dropped
    /\ capture_item' = "item"
    /\ staging' = [staging EXCEPT !.textures = <<>>, !.frame_count = 0]
    /\ reset_at' = nraw
    /\ UNCHANGED <<prov, capturing, frame_sender, capture_thread, session,
                   frame_pool, stream_tokens, dropped, source, frames, rx_open,
                   nstreams, nraw, panicked, stopped, cb>>
    /\ lastcall' = NoRet
    /\ UNCHANGED cycle

\* what start_capture returns: wgc lines 387-403, win lines 531-538
start_result(r) ==
    IF capturing THEN "AlreadyCapturing"
    ELSE IF capture_item = None THEN "NoCaptureItem"
    ELSE IF prov = "wgc" /\ session # 0 /\ r = "err" THEN "FailedToStartCapture"
    ELSE "Ok"

\* a start_capture that does not look at the flag or the source
start_capture_unchecked(r) ==
    IF prov = "wgc" /\ session # 0 /\ r = "err"
    THEN UNCHANGED <<capturing, source, stopped>>
    ELSE /\ capturing' = TRUE
         /\ source' = IF prov = "wgc" /\ session # 0
                      THEN [source EXCEPT ![session] = "running"]
                      ELSE source
         /\ stopped' = FALSE

\* start_capture: wgc lines 386-406 (r: the result of session.StartCapture),
\* win lines 530-542
start_capture(r) ==
    IF start_result(r) # "Ok"
    THEN UNCHANGED <<capturing, source, stopped>>
    ELSE /\ capturing' = TRUE
         /\ source' = IF prov = "wgc" /\ session # 0
                      THEN [source EXCEPT ![session] = "running"]
                      ELSE source
         /\ stopped' = FALSE

StartCapture(r) ==
    /\ ~dropped
    /\ start_capture(r)
    /\ UNCHANGED <<prov, capture_item, staging, frame_sender, capture_thread,
                   session, frame_pool, stream_tokens, dropped, frames, rx_open,
                   nstreams, nraw, panicked, cb, reset_at>>
    /\ lastcall' = [op |-> "start", res |-> start_result(r), wascap |-> capturing,
               hadsrc |-> capture_item # None,
               same |-> ProviderState' = ProviderState,
               fail |-> r, peak |-> Running(source')]
    /\ cycle' = IF cycle = 1 /\ start_result(r) = "Ok" THEN 2 ELSE cycle

\* what the environment may fail in create_stream: nothing, the creation of
\* the pool, session or handler, or StartCapture
CreateFail == {"none", "init", "start"}

\* WindowsCaptureProvider::create_stream, lines 453-508, with capture_loop
\* lines 93-196 up to the ready signal
WinCreateStream(f) ==
    LET k == nstreams + 1
        ok == capture_item # None /\ f = "none"
    IN /\ frame_sender' = k
       /\ capture_thread' = IF ok THEN k ELSE 0
       /\ source' = [EndSource(source, capture_thread) EXCEPT
                        ![k] = IF ok THEN "running" ELSE @]
       /\ rx_open' = [rx_open EXCEPT ![k] = ok]
       /\ stopped' = IF ok THEN FALSE ELSE stopped
       /\ UNCHANGED <<session, frame_pool, stream_tokens>>

\* WgcCaptureProvider::create_stream, lines 254-367
WgcCreateStream(f) ==
    LET k == nstreams + 1
        early == capture_item = None \/ f = "init"
        ok == ~early /\ ~(capturing /\ f = "start")
    IN /\ stream_tokens' = IF early THEN stream_tokens ELSE Append(stream_tokens, k)
       /\ session' = IF ok THEN k ELSE session
       /\ frame_pool' = IF ok THEN k ELSE frame_pool
       /\ source' = IF early THEN source
                    ELSE IF ~ok THEN [source EXCEPT ![k] = "closed"]
                    ELSE [EndSource(source, session) EXCEPT
                             ![k] = IF capturing THEN "running" ELSE "idle"]
       /\ rx_open' = [rx_open EXCEPT ![k] = ok]
       /\ stopped' = IF ok /\ capturing THEN FALSE ELSE stopped
       /\ UNCHANGED <<frame_sender, capture_thread>>

\* what create_stream returns: win lines 468-474 and 493-507, wgc lines
\* 260-365
create_result(f) ==
    IF capture_item = None THEN "NoCaptureItem"
    ELSE IF prov = "win" THEN (IF f = "none" THEN "Ok" ELSE "Err")
    ELSE IF f = "init" \/ (capturing /\ f = "start") THEN "Err"
    ELSE "Ok"

\* the most frame sources that run at one moment of create_stream, to src
\* from source: win quits its thread (line 455) before it spawns the new
\* one (line 480); wgc starts the new session (line 358) before the
\* assignments of lines 364-365 release the old one
create_peak(f, src) ==
    IF prov = "wgc" /\ capturing /\ create_result(f) = "Ok"
    THEN Running(source) + 1
    ELSE Max(Running(source), Running(src))

CreateStream(f) ==
    /\ ~dropped
    /\ nstreams < MaxCycleStreams
    /\ IF prov = "win" THEN WinCreateStream(f) ELSE WgcCreateStream(f)
    /\ nstreams' = nstreams + 1
    /\ UNCHANGED <<prov, capture_item, capturing, staging, dropped, frames,
                   nraw, panicked, cb, reset_at>>
    /\ lastcall' = [op |-> "create", res |-> create_result(f),
                    wascap |-> capturing, hadsrc |-> capture_item # None,
                    same |-> ProviderState' = ProviderState,
                    fail |-> f, peak |-> create_peak(f, source')]
    /\ UNCHANGED cycle

\* stop_capture: win lines 544-561 with ensure_quit_capture_thread 426-444,
\* wgc lines 408-428
\* what stop_capture returns: wgc lines 409-411 and 427, win lines 545-549
\* and 560
stop_result == "Ok"

\* a stop_capture that ends the frame sources but leaves the flag set
stop_capture_flag_kept ==
    /\ UNCHANGED capturing
    /\ IF prov = "win"
       THEN /\ source' = EndSource(source, capture_thread)
            /\ capture_thread' = 0
            /\ frame_sender' = 0
            /\ UNCHANGED <<session, frame_pool, stream_tokens>>
       ELSE /\ source' = EndSource(EndSource(source, session), frame_pool)
            /\ stream_tokens' = IF frame_pool # 0 THEN <<>> ELSE stream_tokens
            /\ session' = 0
            /\ frame_pool' = 0
            /\ UNCHANGED <<frame_sender, capture_thread>>

stop_capture ==
    IF ~capturing
    THEN UNCHANGED <<capturing, frame_sender, capture_thread, session, frame_pool,
                     stream_tokens, source>>
    ELSE /\ capturing' = FALSE
         /\ IF prov = "win"
            THEN /\ source' = EndSource(source, capture_thread)
                 /\ capture_thread' = 0
                 /\ frame_sender' = 0
                 /\ UNCHANGED <<session, frame_pool, stream_tokens>>
            ELSE /\ source' = EndSource(EndSource(source, session), frame_pool)
                 /\ stream_tokens' = IF frame_pool # 0 THEN <<>> ELSE stream_tokens
                 /\ session' = 0
                 /\ frame_pool' = 0
                 /\ UNCHANGED <<frame_sender, capture_thread>>

StopCapture ==
    /\ ~dropped
    /\ stop_capture
    /\ stopped' = TRUE
    /\ UNCHANGED <<prov, capture_item, staging, dropped, frames, rx_open,
                   nstreams, nraw, panicked, cb, reset_at>>
    /\ lastcall' = [op |-> "stop", res |-> stop_result, wascap |-> capturing,
               hadsrc |-> capture_item # None,
               same |-> ProviderState' = ProviderState,
               fail |-> "none", peak |-> Running(source)]
    /\ cycle' = IF cycle = 0 /\ capturing THEN 1 ELSE cycle

\* Drop: win lines 564-568, wgc lines 435-439: stop_capture().ok(), then the
\* fields are released: wgc releases its session and pool, win detaches its
\* thread
DropProvider ==
    /\ ~dropped
    /\ IF capturing \/ prov = "win"
       THEN stop_capture
       ELSE /\ source' = EndSource(EndSource(source, session), frame_pool)
            /\ UNCHANGED <<capturing, frame_sender, capture_thread, session,
                           frame_pool, stream_tokens>>
    /\ dropped' = TRUE
    /\ stopped' = TRUE
    /\ UNCHANGED <<prov, capture_item, staging, frames, rx_open, nstreams, nraw,
                   panicked, cb, reset_at>>
    /\ lastcall' = NoRet
    /\ UNCHANGED cycle

\* the FrameArrived handler of source k runs for a raw frame of the given
\* size: wgc lines 306-348, win lines 168-181
FrameArrived(k, size, f) ==
    /\ source[k] = "running"
    /\ ~panicked
    /\ nraw < MaxFrames
    /\ nraw' = nraw + 1
    /\ LET tx == IF prov = "win" THEN frame_sender ELSE k
       IN IF f = "next" \/ tx = 0
          THEN UNCHANGED <<staging, frames, panicked, cb, reset_at>>
          ELSE LET r == process_frame(prov, staging, RawFrame(nraw + 1, size), f)
                   t == IF r.out = NoFrame
                        THEN [q |-> frames[tx], res |-> "none"]
                        ELSE TrySend(frames[tx], rx_open[tx], r.out)
               IN /\ staging' = r.s
                  /\ reset_at' = IF r.reset THEN nraw ELSE reset_at
                  /\ panicked' = (r.ret = "panic")
                  /\ frames' = [frames EXCEPT ![tx] = t.q]
                  /\ cb' = [src |-> k,
                            fc0 |-> r.fc0,
                            reset |-> r.reset, copied |-> r.copied,
                            read |-> r.read, out |-> r.out,
                            fc1 |-> r.s.frame_count, send |-> t.res,
                            before |-> frames[tx], after |-> t.q,
                            dimchg |-> f # "surface"
                                       /\ (staging.width # size[1]
                                           \/ staging.height # size[2]),
                            rst |-> IF r.reset THEN nraw ELSE reset_at,
                            prev |-> cb.last,
                            last |-> IF r.copied THEN nraw + 1 ELSE cb.last]
    /\ UNCHANGED <<provVars, source, rx_open, nstreams, stopped>>
    /\ lastcall' = NoRet
    /\ UNCHANGED cycle

\* capture_stream.rs: the consumer takes the next frame of stream k
StreamRecv(k) ==
    /\ rx_open[k]
    /\ frames[k] # <<>>
    /\ frames' = [frames EXCEPT ![k] = Tail(@)]
    /\ UNCHANGED <<provVars, staging, source, rx_open, nstreams, nraw, panicked,
                   stopped, cb, reset_at>>
    /\ lastcall' = NoRet
    /\ UNCHANGED cycle

\* the consumer drops stream k
StreamDrop(k) ==
    /\ rx_open[k]
    /\ rx_open' = [rx_open EXCEPT ![k] = FALSE]
    /\ frames' = [frames EXCEPT ![k] = <<>>]
    /\ UNCHANGED <<provVars, staging, source, nstreams, nraw, panicked, stopped,
                   cb, reset_at>>
    /\ lastcall' = NoRet
    /\ UNCHANGED cycle

InitCapture ==
    /\ RelayInit
    /\ ClientInit
    /\ \E p \in {"win", "wgc"} : \E item \in {None, "item"} :
          /\ p = "wgc" => item = None
          /\ CaptureInit(p, item)
    /\ ArenaInit /\ PoolInit
NextCapture ==
    \/ SetCaptureItem /\ UNCHANGED notCapture
    \/ \E r \in {"ok", "err"} : StartCapture(r) /\ UNCHANGED notCapture
    \/ \E f \in CreateFail :
          nstreams < MaxStreams /\ CreateStream(f) /\ UNCHANGED notCapture
    \/ StopCapture /\ UNCHANGED notCapture
    \/ DropProvider /\ UNCHANGED notCapture
    \/ \E k \in Streams : \E size \in RawSizes : \E f \in FrameFail :
          FrameArrived(k, size, f) /\ UNCHANGED notCapture
    \/ \E k \in Streams : StreamRecv(k) /\ UNCHANGED notCapture
    \/ \E k \in Streams : StreamDrop(k) /\ UNCHANGED notCapture
SpecCapture == InitCapture /\ [][NextCapture]_vars

\* C8: after stop_capture() has returned or the provider was dropped, and as
\* long as nothing was started again, no frame source of the provider is
\* running: no capture thread, and no handler that can run
C8_StopEndsCapture ==
    stopped => \A k \in Streams : source[k] # "running"

\* C9: the frame callback only ever try_sends: a frame channel never holds
\* more than PIPELINE_DEPTH = 2 frames; when the channel is full the new
\* frame is dropped and the queued frames stay as they were; otherwise the
\* new frame goes to the back of the queue; and a full channel never keeps
\* a running source's callback from running
C9_TrySendOnly ==
    /\ \A k \in Streams : Len(frames[k]) <= PIPELINE_DEPTH
    /\ cb.send = "full" => (Len(cb.before) = PIPELINE_DEPTH /\ cb.after = cb.before)
    /\ cb.send = "ok" => (Len(cb.before) < PIPELINE_DEPTH
                          /\ cb.after = Append(cb.before, cb.out))
    /\ cb.send = "closed" => cb.after = cb.before
    /\ \A k \in Streams :
          (source[k] = "running" /\ ~panicked /\ nraw < MaxFrames) =>
              ENABLED (\E size \in RawSizes : FrameArrived(k, size, "none"))
C9_Witness ==
    /\ cb.send = "full"
    /\ Len(cb.before) = PIPELINE_DEPTH
    /\ cb.out # NoFrame
    /\ \E k \in Streams : frames[k] = cb.before /\ source[k] = "running"

\* C10: the first raw frame copied after the staging textures were created or
\* reset (frame_count = 0) causes no read-back and no output Frame, and
\* leaves frame_count = 1
C10_FirstFrameNoOutput ==
    (cb.copied /\ cb.fc0 = 0) =>
        (~cb.read /\ cb.out = NoFrame /\ cb.fc1 = 1)


\* C11: every Frame the staging pipeline emits carries the data copied into
\* the ring when the preceding raw frame was processed, whatever failed
\* before; and the read slot always differs from the write slot
C11_EmitsPreviousFrame ==
    /\ cb.out # NoFrame => (cb.prev > 0 /\ cb.out.data = cb.prev)
    /\ \A n \in 0..MaxFrames :
          ReadIdx([frame_count |-> n]) # WriteIdx([frame_count |-> n])


InitArena == RelayInit /\ ClientInit /\ CaptureInit("wgc", None) /\ ArenaInit /\ PoolInit
NextArena ==
    \/ \E size \in 1..MaxSize : ArenaGet(size) /\ UNCHANGED notArena
    \/ \E i \in Leases : LeaseDrop(i) /\ UNCHANGED notArena
    \/ \E i \in Leases : LeaseFreeze(i) /\ UNCHANGED notArena
    \/ \E i \in Leases : FrozenDrop(i) /\ UNCHANGED notArena
SpecArena == InitArena /\ [][NextArena]_vars

\* the bytes of two handles overlap
Overlap(x, y) ==
    x.a = y.a /\ x.lo < y.lo + y.len /\ y.lo < x.lo + x.len

\* C13: while every lease is dropped, unfrozen, before the next get, the
\* arena's backing region was reallocated at most as often as a get asked
\* for more than the initial capacity and every earlier size
C13_GrowthBoundedBySizes ==
    serial => nrealloc <= nrecord

\* the leases returned by a get made after lease i was frozen
LaterLeases(i) == {j \in Leases : j > lease[i].fz /\ lease[j].st # "none"}

\* C14 as stated: once a lease was frozen its bytes are never part of a
\* lease returned by a later get, whether the frozen value still exists or
\* not; and dropping the frozen value leaves the arena's region unchanged
C14_FrozenNeverReused ==
    /\ \A i \in Leases : lease[i].st \in {"frozen", "freed"} =>
          \A j \in LaterLeases(i) : ~Overlap(lease[i].data, lease[j].data)
    /\ fobs.n # 0 => fobs.after = fobs.before

\* C14 amended: as long as the frozen value exists its bytes are part of no
\* lease returned by a later get and of no byte the arena has available;
\* dropping the frozen value leaves the arena's region (allocation, offset,
\* length, capacity) unchanged; once it is dropped a later get may hand the
\* same memory out again
C14_FrozenNotReusedWhileAlive ==
    /\ \A i \in Leases : lease[i].st = "frozen" =>
          /\ \A j \in LaterLeases(i) : ~Overlap(lease[i].data, lease[j].data)
          /\ ~Overlap(lease[i].data, ar)
    /\ fobs.n # 0 => fobs.after = fobs.before
C14_Witness ==
    /\ fobs.n # 0
    /\ \E i \in Leases :
          /\ lease[i].st = "frozen"
          /\ \E j \in LaterLeases(i) : lease[j].data.a = lease[i].data.a

\* C15: whatever the interleaving of get and drop and whatever the order in
\* which leases are returned, the byte ranges of the outstanding leases are
\* pairwise disjoint and disjoint from the bytes the arena has available
C15_LeasesDisjoint ==
    \A i \in Leases : lease[i].st = "held" =>
        /\ ~Overlap(lease[i].data, ar)
        /\ \A j \in Leases \ {i} :
              lease[j].st = "held" => ~Overlap(lease[i].data, lease[j].data)
C15_Witness ==
    \E i, j, k \in Leases :
        /\ i < j /\ j < k
        /\ lease[j].st = "dropped"
        /\ lease[i].st = "held" /\ lease[k].st = "held"
        /\ lease[i].data.a = lease[k].data.a
        /\ Overlap(lease[j].data, lease[k].data)

(***************************************************************************)
(* SpecPool: threads that get buffers of any size and drop or take them    *)
(* in any order.                                                           *)
(***************************************************************************)
InitPool ==
    RelayInit /\ ClientInit /\ CaptureInit("wgc", None) /\ ArenaInit /\ PoolInit
NextPool ==
    \/ \E size \in 1..MaxPoolSize : PoolGetOrCreate(size) /\ UNCHANGED notPool
    \/ \E i \in Pooled : PooledDrop(i) /\ UNCHANGED notPool
    \/ \E i \in Pooled : PooledTake(i) /\ UNCHANGED notPool
SpecPool == InitPool /\ [][NextPool]_vars

\* C16: the free-list never holds more than max_buffers buffers, and a lease
\* dropped while the free-list is full leaves the free-list as it was
C16_FreeListBounded ==
    /\ Len(buffers) <= max_buffers
    /\ (pobs.op = "drop" /\ Len(pobs.before) = max_buffers) =>
          pobs.after = pobs.before
C16_Witness ==
    /\ pobs.op = "drop"
    /\ Len(pobs.before) = max_buffers
    /\ pobs.cap > 0

\* C17: after take() and the lease going out of scope the free-list holds
\* exactly what it held before: nothing is pushed back
C17_TakeDetaches ==
    pobs.op = "take" => pobs.after = pobs.before

\* C18 as stated: get_or_create(size) removes a buffer from the free-list
\* only when that buffer is big enough for the request; otherwise it
\* returns a fresh buffer of capacity at least size and leaves the
\* free-list unchanged
C18_PopsOnlyBigEnough ==
    pobs.op = "get" =>
        IF pobs.before # <<>> /\ Head(pobs.before) >= pobs.size
        THEN pobs.after \in {pobs.before, Tail(pobs.before)}
        ELSE /\ pobs.after = pobs.before
             /\ pobs.fresh
             /\ pobs.cap >= pobs.size

\* C18 amended: get_or_create(size) removes the oldest buffer of the
\* free-list whenever there is one, whatever its capacity, and returns it,
\* grown to a capacity of at least size when it was smaller; only when the
\* free-list is empty it returns a fresh buffer, of capacity at least size,
\* and leaves the free-list unchanged
C18_PopsOldestAndGrows ==
    pobs.op = "get" =>
        /\ pobs.cap >= pobs.size
        /\ pooled[pobs.n].cap = pobs.cap
        /\ IF pobs.before # <<>>
           THEN /\ pobs.after = Tail(pobs.before)
                /\ ~pobs.fresh
                /\ pobs.cap >= Head(pobs.before)
                /\ Head(pobs.before) >= pobs.size => pobs.cap = Head(pobs.before)
           ELSE /\ pobs.after = pobs.before
                /\ pobs.fresh
C18_Witness ==
    /\ pobs.op = "get"
    /\ pobs.before # <<>>
    /\ Head(pobs.before) > 0
    /\ Head(pobs.before) < pobs.size

\* C19: start_capture on a provider that is capturing returns
\* AlreadyCapturing, on one that is not capturing and has no source it
\* returns NoCaptureItem, and in both cases the provider is as it was
C19_StartErrorsChangeNothing ==
    lastcall.op = "start" =>
        /\ lastcall.wascap => (lastcall.res = "AlreadyCapturing" /\ lastcall.same)
        /\ (~lastcall.wascap /\ ~lastcall.hadsrc) => (lastcall.res = "NoCaptureItem" /\ lastcall.same)
C19_Witness ==
    /\ lastcall.op = "start"
    /\ lastcall.wascap
    /\ lastcall.hadsrc
    /\ \E k \in Streams : source[k] = "running"

\* C20: stop_capture on a provider that is not capturing returns the
\* NotCapturing error and changes nothing
C20_StopWhenIdleIsError ==
    (lastcall.op = "stop" /\ ~lastcall.wascap) => (lastcall.res = "NotCapturing" /\ lastcall.same)

(***************************************************************************)
(* SpecCycle: one provider of either kind taken through start/stop cycles: *)
(* streams are created again after a stop and while a stream is active.    *)
(***************************************************************************)
\* the failures of the frame callback the cycles are checked with
CycleFrameFail == {"none", "map", "texture1"}

NextCycle ==
    \/ SetCaptureItem /\ UNCHANGED notCapture
    \/ \E r \in {"ok", "err"} : StartCapture(r) /\ UNCHANGED notCapture
    \/ \E f \in CreateFail : CreateStream(f) /\ UNCHANGED notCapture
    \/ StopCapture /\ UNCHANGED notCapture
    \/ \E k \in Streams : \E f \in CycleFrameFail :
          FrameArrived(k, <<1, 1>>, f) /\ UNCHANGED notCapture
    \/ \E k \in Streams : StreamRecv(k) /\ UNCHANGED notCapture
SpecCycle == InitCapture /\ [][NextCycle]_vars

\* C21: a stop_capture leaves the provider not capturing and a stop_capture
\* on a provider that is not capturing changes nothing; a start_capture on a
\* stopped provider that has a source succeeds, and a create_stream on a
\* capturing provider succeeds with a running frame source that feeds the
\* new stream, in every cycle, unless the platform fails the call or the
\* frame callback has panicked
C21_StartStopRepeatable ==
    /\ lastcall.op = "stop" => ~capturing
    /\ (lastcall.op = "stop" /\ ~lastcall.wascap) => lastcall.same
    /\ (lastcall.op = "start" /\ ~lastcall.wascap /\ lastcall.hadsrc
          /\ lastcall.fail = "ok") =>
          (lastcall.res = "Ok" /\ capturing)
    /\ (lastcall.op = "create" /\ capturing /\ lastcall.hadsrc
          /\ lastcall.fail = "none") =>
          /\ lastcall.res = "Ok"
          /\ source[nstreams] = "running"
          /\ rx_open[nstreams]
          /\ prov = "win" => frame_sender = nstreams
          /\ (~panicked /\ nraw < MaxFrames) =>
                ENABLED FrameArrived(nstreams, <<1, 1>>, "none")
C21_Witness ==
    /\ cycle = 2
    /\ capturing
    /\ nstreams = 2
    /\ source[1] = "closed" /\ frames[1] # <<>>
    /\ source[2] = "running" /\ frames[2] # <<>>
    /\ cb.src = 2 /\ cb.send = "ok"

\* C22: create_stream leaves the capturing flag as it was; when it succeeds
\* no earlier frame source runs any more; and at no moment, in a call or
\* between calls, do two frame sources of one provider run
C22_CreateReplacesSource ==
    /\ Running(source) <= 1
    /\ lastcall.op = "create" =>
          /\ capturing = lastcall.wascap
          /\ lastcall.peak <= 1
          /\ lastcall.res = "Ok" =>
                \A k \in Streams : k < nstreams => source[k] # "running"

\* what connection t was sent so far, in order: written to its socket, then
\* still queued
SentTo(t) == got[t] \o chan[t]
\* received message n names, in a non-empty to, no peer of the registry it
\* was looked up in
ToAbsent(n) ==
    /\ rlog[n].to # ""
    /\ \A t \in rlog[n].snap : peer_id(t) # rlog[n].to

\* C23: a message whose non-empty to names no peer registered at the lookup
\* is sent to no one, then or later, whoever registers afterwards; the
\* sender is sent nothing because of it; and the registry holds exactly the
\* connections that registered and have not ended
C23_AbsentTargetDropped ==
    /\ \A n \in 1..Len(rlog) : ToAbsent(n) =>
          /\ RouteDone(n)
          /\ rlog[n].rej = {}
          /\ \A t \in Conn : rlog[n].acc[t] = 0 /\ Copies(n, t) = 0
    /\ \A c \in Conn : \A i \in 1..Len(SentTo(c)) :
          \/ SentTo(c)[i] = IdentityMsg(c)
          \/ /\ SentTo(c)[i].n \in 1..Len(rlog)
             /\ ~ToAbsent(SentTo(c)[i].n)
    /\ peers = {c \in Conn : hpc[c] \in {"registered", "loop", "routing"}}
\* a message for p3 was dropped before connection 3 registered, and
\* connection 3 has since registered and been written its Identity only
C23_Witness ==
    \E n \in 1..Len(rlog) :
        /\ ToAbsent(n)
        /\ rlog[n].to = peer_id(3)
        /\ 3 \in peers
        /\ got[3] = <<IdentityMsg(3)>>
        /\ chan[3] = <<>>

\* C24: the messages one peer sent that the relay routed to one recipient
\* are queued for, and written to, that recipient in the order the relay
\* received them
C24_PairOrder ==
    \A t \in Conn : \A i, j \in 1..Len(SentTo(t)) :
        (/\ i < j
         /\ SentTo(t)[i].n > 0 /\ SentTo(t)[j].n > 0
         /\ rlog[SentTo(t)[i].n].src = rlog[SentTo(t)[j].n].src) =>
            SentTo(t)[i].n < SentTo(t)[j].n
\* two messages of one sender were written to one recipient's socket
C24_Witness ==
    \E t \in Conn : \E i, j \in 1..Len(got[t]) :
        /\ i < j
        /\ got[t][i].n > 0 /\ got[t][j].n > 0
        /\ rlog[got[t][i].n].src = rlog[got[t][j].n].src

\* C25: a connection whose handler has ended is not in the registry; every
\* message the relay ever sends to a connection is that connection's
\* Identity, once, or a message a client sent, as often as the relay's send
\* loop put it there; and a message addressed to an id that is not in the
\* registry at the lookup, as after its removal, is sent to no one
C25_DisconnectDeregisters ==
    /\ \A c \in Conn : hpc[c] = "closed" => c \notin peers
    /\ \A c \in Conn :
          /\ Cardinality({i \in 1..Len(SentTo(c)) : SentTo(c)[i].n = 0}) <= 1
          /\ \A i \in 1..Len(SentTo(c)) :
                IF SentTo(c)[i].n = 0
                THEN SentTo(c)[i] = IdentityMsg(c)
                ELSE /\ SentTo(c)[i].n \in 1..Len(rlog)
                     /\ c \in rlog[SentTo(c)[i].n].snap
                     /\ ~ChanClosed(c) =>
                           Copies(SentTo(c)[i].n, c) = rlog[SentTo(c)[i].n].acc[c]
    /\ \A n \in 1..Len(rlog) : \A c \in Conn :
          (rlog[n].to = peer_id(c) /\ c \notin rlog[n].snap) =>
              \A t \in Conn : rlog[n].acc[t] = 0 /\ Copies(n, t) = 0
\* a connection that was in the registry for the first message has ended,
\* and a second message, addressed to it, was looked up after the removal
C25_Witness ==
    \E c \in Conn :
        /\ hpc[c] = "closed"
        /\ Len(rlog) >= 2
        /\ c \in rlog[1].snap
        /\ rlog[2].to = peer_id(c)
        /\ c \notin rlog[2].snap
        /\ \E t \in Conn : t # c /\ t \in peers /\ t # rlog[2].src


(***************************************************************************)
(* SpecIdentity: the relay and two clients, each of which may also put     *)
(* messages of its own making on its socket.  The relay parses any         *)
(* SignalingMessage (signaling_server.rs line 98) and routes it whatever   *)
(* its kind; the receiving client hands it to handle_signaling_message.    *)
(***************************************************************************)
\* what a peer may write to its socket for the other peer: a kind and data of
\* its choice
PeerMsgs ==
    {SignalingMessage(peer_id(t), "", k, d, 0) :
        t \in E2EConn, k \in {"Identity", "Offer"}, d \in {"p1", "sdp-A"}}

InitIdentity == RelayInit /\ ClientInit /\ CaptureInit("wgc", None) /\ ArenaInit /\ PoolInit
NextIdentity ==
    \/ \E c \in E2EConn : Connect(c) /\ UNCHANGED notRelay
    \/ \E c \in E2EConn : SendIdentity(c) /\ UNCHANGED notRelay
    \/ \E c \in E2EConn : Forward(c) /\ UNCHANGED notRelay
    \/ \E c \in E2EConn : RouteSend(c) /\ UNCHANGED notRelay
    \/ \E c \in E2EConn : \E m \in PeerMsgs :
          nrecv < MaxMsgs /\ m.to # peer_id(c) /\ RelayRecv(c, m) /\ UNCHANGED notRelay
    \/ \E c \in E2EConn : ClientConnect(c) /\ UNCHANGED <<relayVars, notNet>>
    \/ \E c \in E2EConn : ClientHandle(c, "none") /\ UNCHANGED <<relayVars, notNet>>
    \/ \E c \in E2EConn : ClientWrite(c) /\ UNCHANGED notNet
SpecIdentity == InitIdentity /\ [][NextIdentity]_vars

\* C26: a client whose connection was written its Identity first (so that
\* connect() read the registered id) keeps local_id equal to the id the relay
\* registered for it, whatever messages other peers route to it
C26_LocalIdIsRegisteredId ==
    \A c \in E2EConn :
        (cpc[c] = "ready" /\ got[c][1] = IdentityMsg(c)) => local_id[c] = peer_id(c)


(***************************************************************************)
(* Claims about the call state machine, continued (SpecCall)               *)
(***************************************************************************)
\* a call with a remote peer is being negotiated or is connected
InCall(c) ==
    /\ remote_id[c] # None
    /\ pcstate[c] \in {"have-local-offer", "have-remote-offer", "stable"}

\* C27: while a call with peer X is being negotiated or is connected, handling
\* an Offer or Answer from a different peer Y leaves remote_id at X, leaves the
\* transport's signaling state alone and queues no Answer
C27_OtherPeerIgnored ==
    [][\A m \in CallMsgs : \A env \in EnvFail(m.sig_type) :
          (/\ m.sig_type \in {"Offer", "Answer"}
           /\ InCall(Me)
           /\ m.from # remote_id[Me]
           /\ CallRecv(m, env)) =>
              /\ remote_id'[Me] = remote_id[Me]
              /\ pcstate'[Me] = pcstate[Me]
              /\ toServer'[Me] = toServer[Me]]_vars

\* a call has ended and the phase is Idle again: the transport had connected,
\* disconnect() closed it and reset remote_id
EndedIdle(c) ==
    /\ Idle(c)
    /\ pcstate[c] = "closed"
    /\ \E i \in 1..Len(events[c]) : events[c][i] = Connected

\* C28: once a call has ended and the phase is Idle again, a later
\* create_offer and a later incoming Offer with a valid description are
\* processed successfully when no transport call is failed by the
\* environment, and leave the signaling state one from which the transport
\* can connect
C28_NewCallAfterEnd ==
    EndedIdle(Me) =>
        \A t \in Callers :
            /\ create_offer(CallState(Me), t, "none").fail = "none"
            /\ LET m == SignalingMessage(peer_id(Me), t, "Offer", "sdp-A", 0)
                   new == handle_signaling_message(CallState(Me), m, "none")
               IN new.fail = "none" /\ new.pcstate = "stable"

\* C29: create_offer(target), when it returns Ok, has set remote_id to target
\* and queued exactly one Offer addressed to target, with the local offer set
\* (Negotiating); when it returns Err, remote_id is as before the call and
\* nothing has been queued
C29_CreateOfferAtomic ==
    [][\A t \in Callers : \A env \in EnvFail("create_offer") :
          CallCreateOffer(t, env) =>
              LET r == create_offer(CallState(Me), t, env).fail
              IN /\ r = "none" =>
                      /\ remote_id'[Me] = t
                      /\ toServer'[Me] = Append(toServer[Me], OfferMsg(t))
                      /\ pcstate'[Me] = "have-local-offer"
                 /\ r # "none" =>
                      /\ remote_id'[Me] = remote_id[Me]
                      /\ toServer'[Me] = toServer[Me]]_vars

\* C30: a signaling message whose handling returns Err (the data does not
\* parse or a transport call fails) leaves remote_id and local_id as they
\* were, queues no Answer and raises no incoming-call notification
C30_FailedMessageSkipped ==
    [][\A m \in CallMsgs : \A env \in EnvFail(m.sig_type) :
          (/\ CallRecv(m, env)
           /\ handle_signaling_message(CallState(Me), m, env).fail # "none") =>
              /\ remote_id'[Me] = remote_id[Me]
              /\ local_id'[Me] = local_id[Me]
              /\ toServer'[Me] = toServer[Me]
              /\ events'[Me] = events[Me]]_vars


(***************************************************************************)
(* Claims about the capture callback, continued (SpecCapture)              *)
(***************************************************************************)
\* C31: whatever failed in earlier callback runs, a callback run in which
\* no platform call fails returns normally (it does not panic) and has
\* copied the raw frame to a staging texture
C31_FrameFailureConfined ==
    [][\A k \in Streams : \A size \in RawSizes :
          (/\ FrameArrived(k, size, "none")
           /\ prov = "win" => frame_sender # 0) =>
              (~panicked' /\ cb'.copied)]_vars

\* C32: the staging texture set is empty or holds exactly PIPELINE_DEPTH
\* textures, so the write and the read index name an existing texture
C32_StagingFullOrEmpty ==
    /\ Len(staging.textures) \in {0, PIPELINE_DEPTH}
    /\ staging.textures # <<>> =>
          /\ WriteIdx(staging) <= Len(staging.textures)
          /\ ReadIdx(staging) <= Len(staging.textures)


(***************************************************************************)
(* SpecLease: the FrameArrived handler of the wgc provider together with   *)
(* the arena its buffers come from.  The handler takes a lease under the   *)
(* arena's lock (line 324), runs process_frame, and whatever still holds   *)
(* the lease when a scope ends drops it (Drop for BufferRef, under the     *)
(* arena's lock again).  The consumer receives Frames and drops them, or   *)
(* drops its stream, whose destructor drops the Frames still queued.       *)
(***************************************************************************)
\* the bytes of a buffer for a raw frame of the given size (line 315-317)
buffer_size(size) == size[1] * size[2]

\* a handler has taken its lease and has not returned yet
InCallback == \E i \in Leases : owner[i].at = "cb"

\* mutant: a Frame the full channel rejected is kept alive, not dropped
release_on_exit_leak(send) == IF send \in {"ok", "full"} THEN "sent" ELSE "drop"

\* process_frame lines 85-202 and the handler lines 329-347: where the lease
\* is when the handler returns, by the outcome of try_send ("none": no Frame
\* was built).  The BufferRef moves into process_frame and into the Frame;
\* an accepted Frame moves into the channel; in every other case the
\* BufferRef or the Frame goes out of scope and is dropped.
release_on_exit(send) == IF send = "ok" THEN "sent" ELSE "drop"

\* lines 306-312, 344: TryGetNextFrame fails, no lease is taken
CallbackNoFrame(k) ==
    /\ ~InCallback
    /\ \E size \in RawSizes : FrameArrived(k, size, "next")
    /\ UNCHANGED <<arenaVars, owner>>

\* lines 312-327: the handler got the frame and takes a lease of its size
CallbackGet(k, size) ==
    /\ source[k] = "running"
    /\ ~panicked
    /\ nraw < MaxFrames
    /\ ~InCallback
    /\ ArenaGet(buffer_size(size))
    /\ owner' = [owner EXCEPT ![nget + 1] = Own("cb", k)]
    /\ UNCHANGED capVars

\* lines 329-347: process_frame runs and the handler returns
CallbackFinish(k, size, f) ==
    /\ nget > 0
    /\ owner[nget] = Own("cb", k)
    /\ lease[nget].data.len = buffer_size(size)
    /\ FrameArrived(k, size, f)
    /\ IF release_on_exit(cb'.send) = "sent"
       THEN /\ owner' = [owner EXCEPT ![nget] = Own("chan", k)]
            /\ UNCHANGED arenaVars
       ELSE /\ LeaseDrop(nget)
            /\ owner' = [owner EXCEPT ![nget] = Own("arena", 0)]

\* the consumer receives the oldest Frame of stream k
ConsumerRecv(k) ==
    /\ StreamRecv(k)
    /\ LET queued == {i \in Leases : owner[i] = Own("chan", k)}
           first == CHOOSE i \in queued : \A j \in queued : i <= j
       IN owner' = [owner EXCEPT ![first] = Own("consumer", k)]
    /\ UNCHANGED arenaVars

\* the consumer's stream is dropped: the channel closes and its destructor
\* has the queued Frames to drop
ConsumerDropStream(k) ==
    /\ StreamDrop(k)
    /\ owner' = [i \in Leases |->
                    IF owner[i] = Own("chan", k) THEN Own("closing", k)
                    ELSE owner[i]]
    /\ UNCHANGED arenaVars

\* a Frame outside the handler is dropped, and its BufferRef with it
FrameDrop(i) ==
    /\ owner[i].at \in {"consumer", "closing"}
    /\ LeaseDrop(i)
    /\ owner' = [owner EXCEPT ![i] = Own("arena", 0)]
    /\ UNCHANGED capVars

LeaseFrameFail == FrameFail \ {"next"}

InitLease ==
    RelayInit /\ ClientInit /\ CaptureInit("wgc", None) /\ ArenaInit /\ PoolInit
NextLease ==
    \/ SetCaptureItem /\ UNCHANGED <<arenaVars, owner, notLease>>
    \/ StartCapture("ok") /\ UNCHANGED <<arenaVars, owner, notLease>>
    \/ /\ nstreams < MaxStreams
       /\ CreateStream("none")
       /\ UNCHANGED <<arenaVars, owner, notLease>>
    \/ \E k \in Streams : CallbackNoFrame(k) /\ UNCHANGED notLease
    \/ \E k \in Streams : \E size \in RawSizes :
          CallbackGet(k, size) /\ UNCHANGED notLease
    \/ \E k \in Streams : \E size \in RawSizes : \E f \in LeaseFrameFail :
          CallbackFinish(k, size, f) /\ UNCHANGED notLease
    \/ \E k \in Streams : ConsumerRecv(k) /\ UNCHANGED notLease
    \/ \E k \in Streams : ConsumerDropStream(k) /\ UNCHANGED notLease
    \/ \E i \in Leases : FrameDrop(i) /\ UNCHANGED notLease
SpecLease == InitLease /\ [][NextLease]_vars

\* C33: once the handler has returned, every lease it took is owned by a
\* Frame the channel accepted (queued, received by the consumer, or left
\* to the dropped receiver) or has been returned to the arena; the leases
\* owned by queued Frames are exactly the Frames in the channel; nothing
\* else holds a lease
C33_NoLeaseLeaked ==
    /\ \A i \in Leases :
          /\ owner[i].at = "arena" <=> lease[i].st = "dropped"
          /\ owner[i].at \in {"cb", "chan", "closing", "consumer"} <=>
                lease[i].st = "held"
          /\ owner[i].at = "cb" => i = nget
    /\ \A k \in Streams :
          Cardinality({i \in Leases : owner[i] = Own("chan", k)}) = Len(frames[k])
    /\ ~InCallback =>
          \A i \in Leases :
              lease[i].st = "held" =>
                  \/ owner[i].at = "chan" /\ rx_open[owner[i].k]
                  \/ owner[i].at = "consumer"
                  \/ owner[i].at = "closing" /\ ~rx_open[owner[i].k]
C33_Witness ==
    /\ ~InCallback
    /\ cb.send = "full"
    /\ owner[1].at = "chan" /\ owner[2].at = "chan"
    /\ owner[3].at = "arena"


(***************************************************************************)
(* SpecIce: one peer, Me, with the three tasks that touch remote_id: the   *)
(* caller of create_offer, the signaling task, and the transport's         *)
(* on_ice_candidate callback.  create_offer awaits the transport twice     *)
(* before it writes remote_id, so the other tasks may run in between; the  *)
(* transport gathers candidates from the moment a local description is     *)
(* set.                                                                    *)
(***************************************************************************)
MaxCandidates == 2

\* webrtc.rs lines 144-149
CandidateMsg(to) == SignalingMessage(to, "", "Candidate", "cand", 0)

\* the transport has a local description: it gathers ICE candidates
Gathering(c) ==
    \/ pcstate[c] \in {"have-local-offer", "stable"}
    \/ ice.pc = "local_set"

\* create_offer lines 270-281: create_offer and set_local_description
OfferBegin(target, env) ==
    /\ ops < MaxOps
    /\ ice.pc = "idle"
    /\ LET f == CreateOfferFailAt(pcstate[Me], env)
       IN IF f \in {"create_offer", "set_local"}
          THEN UNCHANGED <<pcstate, ice>>
          ELSE /\ pcstate' = [pcstate EXCEPT ![Me] = "have-local-offer"]
               /\ ice' = [ice EXCEPT !.pc = "local_set", !.target = target]
    /\ ops' = ops + 1
    /\ UNCHANGED <<local_id, remote_id, toServer, events, hlog,
                   conn, uird, target_id, eobs, dres>>

\* create_offer lines 283-295: remote_id is written and the Offer is queued
OfferEnd(env) ==
    /\ ice.pc = "local_set"
    /\ remote_id' = [remote_id EXCEPT ![Me] = ice.target]
    /\ toServer' = [toServer EXCEPT ![Me] =
                       IF env = "send" THEN @ ELSE Append(@, OfferMsg(ice.target))]
    /\ ice' = [ice EXCEPT !.pc = "idle", !.target = None]
    /\ UNCHANGED <<local_id, pcstate, events, hlog,
                   conn, uird, target_id, eobs, dres, ops>>

\* lines 131-159: the transport produced a candidate; with no remote_id the
\* callback returns without sending it
IceCandidate ==
    /\ Gathering(Me)
    /\ ice.sent + ice.discarded < MaxCandidates
    /\ IF remote_id[Me] = None
       THEN /\ ice' = [ice EXCEPT !.discarded = @ + 1]
            /\ UNCHANGED toServer
       ELSE /\ ice' = [ice EXCEPT !.sent = @ + 1]
            /\ toServer' = [toServer EXCEPT ![Me] =
                               Append(@, CandidateMsg(remote_id[Me]))]
    /\ UNCHANGED <<local_id, remote_id, pcstate, events, hlog,
                   conn, uird, target_id, eobs, dres, ops>>

InitIce == InitCall
NextIce ==
    \/ \E m \in CallMsgs : \E env \in EnvFail(m.sig_type) :
          CallRecv(m, env) /\ UNCHANGED notCall
    \/ \E t \in Callers : \E env \in {"none", "create_offer", "set_local"} :
          OfferBegin(t, env)
          /\ UNCHANGED <<relayVars, cpc, rd, capVars, arenaVars, poolVars, ownVars,
                       qVars, pliVars>>
    \/ \E env \in {"none", "send"} :
          OfferEnd(env)
          /\ UNCHANGED <<relayVars, cpc, rd, capVars, arenaVars, poolVars, ownVars,
                       qVars, pliVars>>
    \/ IceCandidate
       /\ UNCHANGED <<relayVars, cpc, rd, capVars, arenaVars, poolVars, ownVars,
                       qVars, pliVars>>
SpecIce == InitIce /\ [][NextIce]_vars

\* C34: no ICE candidate the transport produces after a local description
\* was set is discarded for want of a remote_id
C34_NoCandidateDiscarded ==
    ice.discarded = 0


(***************************************************************************)
(* SpecQueues: the signaling client of one peer, Me, as its four tasks:    *)
(* the reader task (socket -> inbound queue), the signaling task (inbound  *)
(* queue -> handle_signaling_message, which queues the Answer itself), the *)
(* writer task (outbound queue -> socket) and the UI calling create_offer. *)
(* Both queues are tokio mpsc channels of capacity 100, here               *)
(* ClientQueueBound: send().await waits while the channel is full and      *)
(* returns Err once the receiver is gone.                                  *)
(***************************************************************************)
ClientQueueBound == 2
MaxSock == 3

\* what the socket may deliver: a text frame that parses, one that does not,
\* a frame that is not text, a receive error, the end of the stream
QueueMsgs ==
    {SignalingMessage(peer_id(Me), "p2", k, "sdp-A", 0) : k \in {"Offer", "Candidate"}}
SocketFrames ==
    {[kind |-> "text", msg |-> m] : m \in QueueMsgs}
    \cup {[kind |-> k, msg |-> NoMsg] : k \in {"garbage", "binary", "error", "end"}}

\* mutant: a text frame that does not parse ends the reader loop
reader_step_fatal(b, fr) ==
    CASE fr.kind = "text" ->
           [b EXCEPT !.q = Append(@, [fr.msg EXCEPT !.n = b.sock + 1]),
                     !.sock = @ + 1]
      [] fr.kind = "garbage" ->
           [b EXCEPT !.sock = @ + 1, !.bad = @ + 1, !.reader = "exited",
                     !.why = "garbage"]
      [] fr.kind = "binary" -> [b EXCEPT !.sock = @ + 1, !.skipped = @ + 1]
      [] OTHER -> [b EXCEPT !.sock = @ + 1, !.reader = "exited", !.why = fr.kind]

\* spawn_reader_task lines 81-105: one turn of the loop on frame fr (the
\* message is numbered by its arrival)
reader_step(b, fr) ==
    CASE fr.kind = "text" ->
           [b EXCEPT !.q = Append(@, [fr.msg EXCEPT !.n = b.sock + 1]),
                     !.sock = @ + 1]
      [] fr.kind = "garbage" -> [b EXCEPT !.sock = @ + 1, !.bad = @ + 1]
      [] fr.kind = "binary" -> [b EXCEPT !.sock = @ + 1, !.skipped = @ + 1]
      [] OTHER -> [b EXCEPT !.sock = @ + 1, !.reader = "exited", !.why = fr.kind]

\* the reader task takes the next frame; to_webrtc_tx.send(..).await (line
\* 87) completes only when the inbound queue has room
ReaderRecv(fr) ==
    /\ inbox.reader = "running"
    /\ inbox.sock < MaxSock
    /\ fr.kind = "text" => Len(inbox.q) < ClientQueueBound
    /\ inbox' = reader_step(inbox, fr)
    /\ UNCHANGED <<clientVars, callVars>>

\* signaling_tx.send(..).await on the outbound queue: it fails when the
\* writer task has dropped the receiver, and waits while the queue is full
outbound_env(env) == IF inbox.writer = "exited" /\ env = "none" THEN "send" ELSE env
OutboundBlocked == inbox.writer = "running" /\ Len(toServer[Me]) >= ClientQueueBound

\* webrtc.rs lines 110-126: the signaling task takes the next inbound
\* message and runs the handler to its end
SignalHandle(env) ==
    /\ ops < MaxOps
    /\ inbox.q # <<>>
    /\ LET m == Head(inbox.q)
           e == outbound_env(env)
           new == handle_signaling_message(CallState(Me), m, e)
       IN /\ env \in EnvFail(m.sig_type) \ {"send"}
          /\ Len(new.toServer) > Len(toServer[Me]) => ~OutboundBlocked
          /\ HandleMessage(Me, m, e)
    /\ inbox' = [inbox EXCEPT !.q = Tail(@)]
    /\ ops' = ops + 1
    /\ UNCHANGED <<cpc, rd, conn, uird, target_id, eobs, dres>>

\* mutant: the writer loop goes on after a failed write
writer_step_on(b, res) == [b EXCEPT !.wrote = IF res = "ok" THEN @ + 1 ELSE @]

\* spawn_writer_task lines 57-71: the socket write of one message succeeds,
\* or fails and the loop breaks
writer_step(b, res) ==
    IF res = "ok" THEN [b EXCEPT !.wrote = @ + 1]
    ELSE [b EXCEPT !.writer = "exited"]

\* the writer task takes the next outbound message; when it breaks, the
\* receiver and what is still queued are dropped
WriterSend(res) ==
    /\ inbox.writer = "running"
    /\ toServer[Me] # <<>>
    /\ inbox' = writer_step(inbox, res)
    /\ toServer' = [toServer EXCEPT ![Me] =
                       IF inbox'.writer = "exited" THEN <<>> ELSE Tail(@)]
    /\ UNCHANGED <<cpc, rd, local_id, remote_id, pcstate, events, hlog, callVars>>

\* home.rs StartCall: create_offer(target) with the outbound queue as it is
UiCreateOffer(target, env) ==
    /\ ops < MaxOps
    /\ env \in EnvFail("create_offer") \ {"send"}
    /\ LET e == outbound_env(env)
           new == create_offer(CallState(Me), target, e)
       IN /\ Len(new.toServer) > Len(toServer[Me]) => ~OutboundBlocked
          /\ CreateOffer(Me, target, e)
    /\ ops' = ops + 1
    /\ UNCHANGED <<conn, uird, target_id, eobs, dres, inbox>>

InitQueues == InitCall
NextQueues ==
    \/ \E fr \in SocketFrames :
          ReaderRecv(fr)
          /\ UNCHANGED <<relayVars, capVars, arenaVars, poolVars, ownVars, iceVars,
                       pliVars>>
    \/ \E env \in {"none", "set_remote", "add_ice"} :
          SignalHandle(env)
          /\ UNCHANGED <<relayVars, capVars, arenaVars, poolVars, ownVars, iceVars,
                       pliVars>>
    \/ \E res \in {"ok", "fail"} :
          WriterSend(res)
          /\ UNCHANGED <<relayVars, capVars, arenaVars, poolVars, ownVars, iceVars,
                       pliVars>>
    \/ \E env \in {"none", "set_local"} :
          UiCreateOffer("p2", env)
          /\ UNCHANGED <<relayVars, capVars, arenaVars, poolVars, ownVars, iceVars,
                       pliVars>>
SpecQueues == InitQueues /\ [][NextQueues]_vars

\* C35: whatever the backlog of outbound messages, the reader task can
\* receive the next frame while the inbound queue has room and the signaling
\* task can handle the next inbound message; whatever the backlog of inbound
\* messages, the writer task can send the next outbound message
C35_QueuesIndependent ==
    /\ (inbox.reader = "running" /\ inbox.sock < MaxSock
        /\ Len(inbox.q) < ClientQueueBound) =>
          \A fr \in SocketFrames : ENABLED ReaderRecv(fr)
    /\ (inbox.q # <<>> /\ ops < MaxOps) => ENABLED SignalHandle("none")
    /\ (inbox.writer = "running" /\ toServer[Me] # <<>>) => ENABLED WriterSend("ok")

\* C36: once a socket write of the writer task has failed, no further
\* outbound message is written, the reader task forwards no further inbound
\* message, and create_offer, which has to queue an Offer, returns an error
C36_WriterFailureTerminates ==
    inbox.writer = "exited" =>
        /\ \A res \in {"ok", "fail"} : ~ENABLED WriterSend(res)
        /\ \A fr \in SocketFrames : fr.kind = "text" => ~ENABLED ReaderRecv(fr)
        /\ create_offer(CallState(Me), "p2", outbound_env("none")).fail # "none"


(***************************************************************************)
(* SpecFrames: the two loops that parse text frames, each fed well-formed  *)
(* and malformed frames: the relay's receive loop of two connections, and  *)
(* the reader task of the client Me with the signaling task behind it.     *)
(***************************************************************************)
\* the well-formed messages a client writes to the relay
FrameMsgs == {SignalingMessage(peer_id(t), "", "Offer", "d", 0) : t \in E2EConn}

\* signaling_server.rs lines 94-98, 124: a text frame that does not parse
\* as a SignalingMessage arrives on connection c; it is logged
RelayRecvBad(c) ==
    /\ hpc[c] = "loop"
    /\ rlog' = Append(rlog, [src |-> c, to |-> "", sig_type |-> "Malformed",
                             snap |-> peers, acc |-> [t \in Conn |-> 0],
                             rej |-> {}])
    /\ nrecv' = nrecv + 1
    /\ UNCHANGED <<peers, hpc, chan, fwd, route, got>>

InitFrames == InitCall
NextFrames ==
    \/ \E c \in E2EConn : Connect(c) /\ UNCHANGED notRelay
    \/ \E c \in E2EConn : SendIdentity(c) /\ UNCHANGED notRelay
    \/ \E c \in E2EConn : Forward(c) /\ UNCHANGED notRelay
    \/ \E c \in E2EConn : RouteSend(c) /\ UNCHANGED notRelay
    \/ \E c \in E2EConn : \E m \in FrameMsgs :
          nrecv < MaxMsgs /\ RelayRecv(c, m) /\ UNCHANGED notRelay
    \/ \E c \in E2EConn :
          nrecv < MaxMsgs /\ RelayRecvBad(c) /\ UNCHANGED notRelay
    \/ \E fr \in SocketFrames :
          ReaderRecv(fr)
          /\ UNCHANGED <<relayVars, capVars, arenaVars, poolVars, ownVars, iceVars,
                       pliVars>>
    \/ SignalHandle("none")
       /\ UNCHANGED <<relayVars, capVars, arenaVars, poolVars, ownVars, iceVars,
                       pliVars>>
SpecFrames == InitFrames /\ [][NextFrames]_vars

\* the frames the client's reader task has read that were text and parsed
Parsed == inbox.sock - inbox.bad - inbox.skipped
            - (IF inbox.reader = "exited" THEN 1 ELSE 0)

\* C37: a text frame that does not parse ends neither loop and is passed on
\* to no one.  Client: the reader loop ends only on a receive error or the
\* end of the stream; every frame that parsed is in the inbound queue or was
\* handled, in arrival order; the loop can take the next well-formed frame
\* whenever the queue has room.  Relay: a malformed frame is sent to nobody
\* and its connection's loop goes on; every well-formed message routed
\* afterwards reaches its registered recipient once, and one sender's
\* messages reach a recipient in arrival order.
C37_MalformedDropped ==
    /\ inbox.reader = "exited" => inbox.why \in {"error", "end"}
    /\ Len(inbox.q) + ops = Parsed
    /\ \A i, j \in 1..Len(inbox.q) : i < j => inbox.q[i].n < inbox.q[j].n
    /\ (inbox.reader = "running" /\ inbox.sock < MaxSock
        /\ Len(inbox.q) < ClientQueueBound) =>
          \A fr \in SocketFrames : ENABLED ReaderRecv(fr)
    /\ \A n \in 1..Len(rlog) :
          IF rlog[n].sig_type = "Malformed"
          THEN /\ \A t \in Conn : rlog[n].acc[t] = 0 /\ Copies(n, t) = 0
               /\ hpc[rlog[n].src] \in {"loop", "routing"}
          ELSE (RouteDone(n) /\ rlog[n].to \in PeerIds
                /\ ConnOf(rlog[n].to) \in rlog[n].snap) =>
                  Copies(n, ConnOf(rlog[n].to)) = 1
    /\ \A c \in E2EConn :
          (hpc[c] = "loop" /\ nrecv < MaxMsgs) =>
              \A m \in FrameMsgs : ENABLED RelayRecv(c, m)
    /\ \A t \in Conn : \A i, j \in 1..Len(SentTo(t)) :
          (i < j /\ SentTo(t)[i].n > 0 /\ SentTo(t)[j].n > 0
           /\ SentTo(t)[i].from = SentTo(t)[j].from) =>
              SentTo(t)[i].n < SentTo(t)[j].n
C37_Witness ==
    /\ inbox.bad = 1 /\ inbox.skipped = 0 /\ inbox.reader = "running"
    /\ Len(inbox.q) = 2 /\ inbox.q[1].n = 1 /\ inbox.q[2].n = 3
    /\ Len(rlog) = 2
    /\ rlog[1].sig_type = "Malformed"
    /\ rlog[2].sig_type = "Offer" /\ rlog[2].src = rlog[1].src
    /\ \E t \in E2EConn : Count(got[t], 2) = 1


(***************************************************************************)
(* SpecMutexRelay: the relay of the signaling_server crate                 *)
(* (src/signaling_server/src/signaling_server.rs).  Its registry is an     *)
(* Arc<Mutex<SignalingState>>; handle_socket takes the guard at line 62    *)
(* and keeps it in a local until the function returns, so the guard lives  *)
(* as long as the connection.  It relays every frame to all other peers.   *)
(***************************************************************************)
\* line 62: the guard `state` is alive in the handler of some connection
MutexHeld == \E c \in Conn : hpc[c] \in {"loop", "closing"}

\* lines 51-60: a socket is upgraded, the id is drawn, the channel created;
\* the handler then waits at state.lock().await
MutexAccept(c) ==
    /\ hpc[c] = "new"
    /\ \A b \in Conn : b < c => hpc[b] # "new"
    /\ hpc' = [hpc EXCEPT ![c] = "accepted"]
    /\ UNCHANGED <<peers, chan, fwd, route, got, nrecv, rlog>>

\* lines 62-74: the lock is acquired, the peer inserted, the forwarder spawned
MutexRegister(c) ==
    /\ hpc[c] = "accepted"
    /\ ~MutexHeld
    /\ peers' = peers \cup {c}
    /\ fwd' = [fwd EXCEPT ![c] = "running"]
    /\ hpc' = [hpc EXCEPT ![c] = "loop"]
    /\ UNCHANGED <<chan, route, got, nrecv, rlog>>

\* lines 77-86: one frame arrives on connection c and is sent to every other
\* peer of the cloned registry; a send into a full queue waits
MutexRecv(c, m) ==
    /\ hpc[c] = "loop"
    /\ \A t \in peers \ {c} : ~ChanFull(t)
    /\ chan' = [t \in Conn |->
                  IF t \in peers \ {c}
                  THEN Append(chan[t], [m EXCEPT !.n = nrecv + 1])
                  ELSE chan[t]]
    /\ rlog' = Append(rlog, [src |-> c, to |-> "", sig_type |-> m.sig_type,
                             snap |-> peers,
                             acc |-> [t \in Conn |->
                                        IF t \in peers \ {c} THEN 1 ELSE 0],
                             rej |-> {}])
    /\ nrecv' = nrecv + 1
    /\ UNCHANGED <<peers, hpc, fwd, route, got>>

\* lines 77, 88-90: the socket ends or fails; the peer is removed
MutexDisconnect(c) ==
    /\ hpc[c] = "loop"
    /\ peers' = peers \ {c}
    /\ hpc' = [hpc EXCEPT ![c] = "closing"]
    /\ UNCHANGED <<chan, fwd, route, got, nrecv, rlog>>

\* line 91: handle_socket returns and the guard is dropped
MutexReturn(c) ==
    /\ hpc[c] = "closing"
    /\ hpc' = [hpc EXCEPT ![c] = "closed"]
    /\ UNCHANGED <<peers, chan, fwd, route, got, nrecv, rlog>>

\* lines 68-74: the forwarder task passes one queued frame to the client, or
\* ends once the queue is empty and its sender was removed from the registry
MutexForwarder(c) ==
    /\ fwd[c] = "running"
    /\ IF chan[c] # <<>>
       THEN /\ got' = [got EXCEPT ![c] = Append(@, Head(chan[c]))]
            /\ chan' = [chan EXCEPT ![c] = Tail(@)]
            /\ UNCHANGED fwd
       ELSE /\ c \notin peers
            /\ fwd' = [fwd EXCEPT ![c] = "done"]
            /\ UNCHANGED <<chan, got>>
    /\ UNCHANGED <<peers, hpc, route, nrecv, rlog>>

InitMutexRelay == InitRelay
NextMutexRelay ==
    \/ \E c \in Conn : MutexAccept(c) /\ UNCHANGED notRelay
    \/ \E c \in Conn : MutexRegister(c) /\ UNCHANGED notRelay
    \/ \E c \in Conn : \E m \in FrameMsgs :
          nrecv < MaxMsgs /\ MutexRecv(c, m) /\ UNCHANGED notRelay
    \/ \E c \in Conn : MutexDisconnect(c) /\ UNCHANGED notRelay
    \/ \E c \in Conn : MutexReturn(c) /\ UNCHANGED notRelay
    \/ \E c \in Conn : MutexForwarder(c) /\ UNCHANGED notRelay
SpecMutexRelay == InitMutexRelay /\ [][NextMutexRelay]_vars

\* C38: the registry lock is held only for one connect, disconnect or lookup,
\* never while a handler waits for its client's next message: whenever one
\* connection is registered and waiting in its receive loop, another accepted
\* connection can be registered.
C38_LockNotHeldWhileWaiting ==
    \A c, d \in Conn :
        (c # d /\ hpc[c] = "loop" /\ hpc[d] = "accepted") =>
            ENABLED MutexRegister(d)


(***************************************************************************)
(* SpecStall: the relay with one peer that stops draining.  The forwarder  *)
(* task of connection Stalled waits forever in sender.send(msg).await      *)
(* (lines 80-91) because its client no longer reads the socket, so nothing *)
(* leaves that peer's queue.  The other clients write messages to their    *)
(* sockets; a handler reads its socket only between two rounds of its send *)
(* loop.                                                                   *)
(***************************************************************************)
\* the messages the peers write in a run
MaxWrites == 3
\* the connection whose client stops reading
Stalled == 3
Tag == <<"m1", "m2", "m3", "m4", "m5", "m6">>
Written == nrecv + Len(toServer[1]) + Len(toServer[2]) + Len(toServer[3])

\* signaling.rs lines 52-74: the client of connection c writes a message for
\* peer t to its socket
PeerWrite(c, t) ==
    /\ hpc[c] \in {"loop", "routing"}
    /\ t # c
    /\ Written < MaxWrites
    /\ toServer' = [toServer EXCEPT ![c] =
                      Append(@, SignalingMessage(peer_id(t), "", "Offer",
                                                 Tag[Written + 1], 0))]
    /\ UNCHANGED <<relayVars, cpc, rd, local_id, remote_id, pcstate, events, hlog>>

Draining == Conn \ {Stalled}

InitStall == InitRelay
NextStall ==
    \/ \E c \in Conn : Connect(c) /\ UNCHANGED notRelay
    \/ \E c \in Conn : SendIdentity(c) /\ UNCHANGED notRelay
    \/ \E c \in Draining : Forward(c) /\ UNCHANGED notRelay
    \/ \E c \in Conn : RouteSend(c) /\ UNCHANGED notRelay
    \/ \E c \in Conn : ClientWrite(c) /\ UNCHANGED notNet
    \/ \E c \in Draining : \E t \in Conn : PeerWrite(c, t) /\ UNCHANGED notNet
\* every handler and every forwarder is a task of its own on the runtime:
\* each step that stays possible is eventually taken
FairStall ==
    /\ \A c \in Conn : WF_vars(Connect(c) /\ UNCHANGED notRelay)
    /\ \A c \in Conn : WF_vars(SendIdentity(c) /\ UNCHANGED notRelay)
    /\ \A c \in Draining : WF_vars(Forward(c) /\ UNCHANGED notRelay)
    /\ \A c \in Conn : WF_vars(RouteSend(c) /\ UNCHANGED notRelay)
    /\ \A c \in Conn : WF_vars(ClientWrite(c) /\ UNCHANGED notNet)
SpecStall == InitStall /\ [][NextStall]_vars /\ FairStall

\* message number k is on the socket of connection c, addressed to peer t
InSocket(c, t, k) ==
    \E i \in 1..Len(toServer[c]) :
        toServer[c][i].data = Tag[k] /\ toServer[c][i].to = peer_id(t)
\* message number k was handed to the client of connection t
Delivered(t, k) == \E i \in 1..Len(got[t]) : got[t][i].data = Tag[k]

\* C39: a peer whose queue is full does not stop routing for others: a
\* message that any peer has written while the stalled peer's queue is full,
\* addressed to a different, registered recipient whose forwarder runs, is
\* eventually delivered to that recipient.
C39_FullQueueBlocksNobodyElse ==
    \A k \in 1..MaxWrites :
        (/\ ChanFull(Stalled)
         /\ \E c \in Conn : \E t \in Draining \cap peers :
               fwd[t] = "running" /\ InSocket(c, t, k))
            ~> (\E t \in Draining : Delivered(t, k))


(***************************************************************************)
(* SpecPli: the keyframe-request loops (webrtc.rs lines 186-221).  on_track *)
(* spawns one loop per remote video track; the loop holds a Weak to the    *)
(* peer connection.  Whether write_rtcp succeeds is the transport's        *)
(* decision.                                                               *)
(***************************************************************************)
Tracks == 1..MaxTracks

\* mutant: a failed write_rtcp does not end the loop
pli_tick_deaf(l, alive, res) ==
    IF alive
    THEN [l EXCEPT !.ticks = @ + 1, !.sent = @ + 1, !.result = res,
                   !.late = @ + (IF l.result = "err" THEN 1 ELSE 0)]
    ELSE [l EXCEPT !.ticks = @ + 1, !.st = "stopped", !.why = "unresolved"]

\* lines 205-218: one round of the loop after the sleep has elapsed:
\* pc.upgrade(), then one write_rtcp of a PictureLossIndication whose result
\* is res, or break; `while result.is_ok()` ends the loop after an Err
pli_tick(l, alive, res) ==
    IF alive
    THEN [l EXCEPT !.ticks = @ + 1, !.sent = @ + 1, !.result = res,
                   !.late = @ + (IF l.result = "err" THEN 1 ELSE 0),
                   !.st = IF res = "ok" THEN "sleeping" ELSE "stopped",
                   !.why = IF res = "ok" THEN "none" ELSE "send failed"]
    ELSE [l EXCEPT !.ticks = @ + 1, !.st = "stopped", !.why = "unresolved"]

\* lines 187-204: a remote video track arrives and its loop is spawned
OnTrack(k) ==
    /\ pli.alive
    /\ pli.loop[k].st = "none"
    /\ \A j \in Tracks : j < k => pli.loop[j].st # "none"
    /\ pli' = [pli EXCEPT !.loop[k].st = "sleeping"]

\* lines 205-218: the sleep of loop k elapses
PliTick(k, res) ==
    /\ pli.loop[k].st = "sleeping"
    /\ pli.loop[k].ticks < MaxTicks
    /\ pli' = [pli EXCEPT !.loop[k] = pli_tick(@, pli.alive, res)]

\* the WebRTC value and with it the last strong reference to the peer
\* connection is dropped
DropPeerConnection ==
    /\ pli.alive
    /\ pli' = [pli EXCEPT !.alive = FALSE]

notPli == <<relayVars, clientVars, callVars, capVars, arenaVars, poolVars,
            ownVars, iceVars, qVars>>
InitPli == InitCall
NextPli ==
    \/ \E k \in Tracks : OnTrack(k) /\ UNCHANGED notPli
    \/ \E k \in Tracks : \E res \in {"ok", "err"} :
          PliTick(k, res) /\ UNCHANGED notPli
    \/ DropPeerConnection /\ UNCHANGED notPli
SpecPli == InitPli /\ [][NextPli]_vars

====
